---- MODULE Spec2Model ----
(***************************************************************************)
(* Model of the telecom platform's money and routing core:                 *)
(*   - the wallet ledger service (internal/wallet: Credit, Debit,          *)
(*     AdminManualCredit over a transactional store, utils.WithTx), one    *)
(*     action per SQL statement of a transaction;                          *)
(*   - the routing decision engine (internal/routing: AdminOverrideEngine  *)
(*     .Decide, RoutingEngine.Route, pickDestination) as operators over    *)
(*     the input and the collaborators' answers.                           *)
(* The store is modelled as READ COMMITTED with row locks: a transaction's *)
(* writes are pending until its commit, a FOR UPDATE read or an upsert     *)
(* waits while another transaction holds the row.                          *)
(***************************************************************************)
EXTENDS Integers, Sequences, FiniteSets, TLC

\* ---------------------------------------------------------------- bounds
\* Largest amount (minor units) a request carries.
MaxAmount == 2
\* Largest estimated cost and largest balance (minor units) a routing call meets.
MaxCost == 1
\* Latest instant the override engine's clock reads.
MaxNow == 1
\* Longest destination list and largest weight handed to pickDestination.
MaxDests == 3
MaxWeight == 2
\* Largest limit of a concurrency cap.
MaxLimit == 2

\* ------------------------------------------------------------ wallet data
Procs == {"p1", "p2"}
Keys == {"k1", "k2"}

\* The wallets table: created once per tenant, never deleted.
WalletRows ==
  { [ID |-> "w1", WorkspaceID |-> "ws1", Currency |-> "USD"],
    [ID |-> "w2", WorkspaceID |-> "ws1", Currency |-> "EUR"] }

WalletKeys == { <<r.WorkspaceID, r.ID>> : r \in WalletRows }

LedgerEntryTypeCredit == "credit"
LedgerEntryTypeDebit == "debit"
AdminWalletActionTypeAdjustBalance == "adjust_balance"

ErrNotFound == "ErrNotFound"
ErrInsufficientFunds == "ErrInsufficientFunds"
ErrInvalidArgument == "ErrInvalidArgument"
\* Any error of the store itself (database/sql): opaque to the service.
ErrStore == "ErrStore"
NoErr == "nil"

\* Go zero values of the result types.
ZeroLedger ==
  [ID |-> 0, WorkspaceID |-> "", WalletID |-> "", Type |-> "", AmountMinor |-> 0,
   Currency |-> "", ExternalRef |-> "", IdempotencyKey |-> ""]
ZeroBalance == [WorkspaceID |-> "", WalletID |-> "", Currency |-> "", BalanceMinor |-> 0]
ZeroAction ==
  [ID |-> 0, WorkspaceID |-> "", WalletID |-> "", AdminUserID |-> "", AdminRole |-> "",
   Action |-> "", Reason |-> "", AmountMinor |-> 0, Currency |-> "", RelatedLedgerID |-> 0]

\* A money request: the arguments of Credit / Debit / AdminManualCredit.
MoneyReq(op, ws, w, amount, cur, key, adminUser, adminRole, reason) ==
  [op |-> op, ws |-> ws, wallet |-> w, amount |-> amount, currency |-> cur, key |-> key,
   adminUser |-> adminUser, adminRole |-> adminRole, reason |-> reason]

ZeroReq == MoneyReq("", "", "", 0, "", "", "", "", "")

\* Requests of the concurrent runs, all passing validation, on wallet w1. In
\* its currency: credits under k1, admin credits under k2, debits under either
\* key, each of every amount. In the other currency: each operation under k1.
RunReqs ==
  { MoneyReq("Credit", "ws1", "w1", a, "USD", "k1", "", "", "") : a \in 1..MaxAmount }
  \cup
  { MoneyReq("Debit", "ws1", "w1", a, "USD", k, "", "", "") : a \in 1..MaxAmount, k \in Keys }
  \cup
  { MoneyReq("AdminManualCredit", "ws1", "w1", a, "USD", "k2", "admin", "super_admin", "refund") :
      a \in 1..MaxAmount }
  \cup
  { MoneyReq(op, "ws1", "w1", 1, "EUR", "k1", "", "", "") : op \in {"Credit", "Debit"} }
  \cup
  { MoneyReq("AdminManualCredit", "ws1", "w1", 1, "EUR", "k1", "admin", "super_admin", "refund") }

\* Requests of the runs on two wallets, each in its wallet's currency: a
\* credit on one wallet; a credit and an admin credit under k1 and a debit
\* under k2 on the other.
TwoWalletReqs ==
  { MoneyReq("Credit", "ws1", "w1", 1, "USD", "k1", "", "", ""),
    MoneyReq("Credit", "ws1", "w2", 1, "EUR", "k1", "", "", ""),
    MoneyReq("Debit", "ws1", "w2", 1, "EUR", "k2", "", "", ""),
    MoneyReq("AdminManualCredit", "ws1", "w2", 1, "EUR", "k1", "admin", "super_admin", "refund") }

\* Requests of the fair runs: an admin credit and a debit on one wallet, a
\* credit on the other.
LiveReqs ==
  { MoneyReq("AdminManualCredit", "ws1", "w1", 1, "USD", "k1", "admin", "super_admin", "refund"),
    MoneyReq("Debit", "ws1", "w1", 1, "USD", "k2", "", "", ""),
    MoneyReq("Credit", "ws1", "w2", 1, "EUR", "k1", "", "", "") }

\* Requests of the validation runs: every field over its empty and non-empty
\* values, amounts from negative to positive, and a wallet id with no row.
AllReqs ==
  { MoneyReq(op, ws, w, a, c, k, "", "", "") :
      op \in {"Credit", "Debit"}, ws \in {"", "ws1"}, w \in {"", "w1", "w3"},
      a \in (0 - 1)..MaxAmount, c \in {"", "USD"}, k \in {"", "k1"} }
  \cup
  { MoneyReq("AdminManualCredit", ws, w, a, c, k, u, ro, re) :
      ws \in {"", "ws1"}, w \in {"", "w1", "w3"}, a \in (0 - 1)..MaxAmount,
      c \in {"", "USD"}, k \in {"", "k1"}, u \in {"", "admin"},
      ro \in {"", "super_admin"}, re \in {"", "refund"} }

VARIABLES
  ledger,      \* wallet_ledger: committed rows, in insertion order
  balances,    \* wallet_balances: committed rows
  actions,     \* admin_wallet_actions: committed rows
  walletLock,  \* holder of the row lock of each wallets row ("none" or a process)
  balLock,     \* holder of the row lock of each wallet_balances row
  proc,        \* each caller: position, request, transaction-local writes, results
  posts,       \* history: per (workspace, wallet, key), what each committed insert returned
  vreq,        \* the request of a validation run
  route,       \* a call of Route: its input, its engine's collaborators, its result
  pickCall,    \* a call of pickDestination: its list, the random source, its result
  conc,        \* concurrent calls of Route on one engine: the engine's fields, each call
  cap          \* a concurrency-cap key of the Redis store, its holders, the last call

vars == <<ledger, balances, actions, walletLock, balLock, proc, posts, vreq, route, pickCall, conc, cap>>

IdleProc ==
  [pc |-> "idle", req |-> ZeroReq, ledgerID |-> 0, actionID |-> 0,
   began |-> FALSE, retry |-> FALSE, b |-> ZeroBalance,
   pendLedger |-> <<>>, pendBal |-> <<>>, pendAction |-> <<>>,
   outLedger |-> ZeroLedger, outBal |-> ZeroBalance, outAction |-> ZeroAction,
   err |-> NoErr]

\* --------------------------------------------------------- pure helpers
SeqToSet(s) == { s[i] : i \in 1..Len(s) }

RECURSIVE SumAmounts(_)
SumAmounts(s) == IF s = <<>> THEN 0 ELSE Head(s).AmountMinor + SumAmounts(Tail(s))

SelectLedger(s, ws, w) ==
  SelectSeq(s, LAMBDA e : e.WorkspaceID = ws /\ e.WalletID = w)

\* validateMoneyReq: the presence checks shared by the three operations.
validateMoneyReqNoKeyCheck(workspaceID, walletID, amountMinor, currency, idempotencyKey) ==
  IF workspaceID = "" \/ walletID = "" THEN ErrInvalidArgument
  ELSE IF currency = "" THEN ErrInvalidArgument
  ELSE IF amountMinor = 0 THEN ErrInvalidArgument
  ELSE NoErr

validateMoneyReq(workspaceID, walletID, amountMinor, currency, idempotencyKey) ==
  IF workspaceID = "" \/ walletID = "" THEN ErrInvalidArgument
  ELSE IF currency = "" THEN ErrInvalidArgument
  ELSE IF idempotencyKey = "" THEN ErrInvalidArgument
  ELSE IF amountMinor = 0 THEN ErrInvalidArgument
  ELSE NoErr

\* The checks each operation makes before it opens a transaction.
Validate(r) ==
  IF r.op = "AdminManualCredit" /\ (r.adminUser = "" \/ r.adminRole = "") THEN ErrInvalidArgument
  ELSE IF r.op = "AdminManualCredit" /\ r.reason = "" THEN ErrInvalidArgument
  ELSE IF validateMoneyReq(r.ws, r.wallet, r.amount, r.currency, r.key) # NoErr
    THEN validateMoneyReq(r.ws, r.wallet, r.amount, r.currency, r.key)
  ELSE IF r.amount <= 0 THEN ErrInvalidArgument
  ELSE NoErr

\* uuid.NewString: an id no row, committed or pending, holds. The operations
\* draw their ids before WithTx; an id is the caller's own until insertLedger
\* sends it, so the model draws it there.
UsedIDs ==
  { e.ID : e \in SeqToSet(ledger) } \cup { a.ID : a \in actions }
  \cup { proc[p].ledgerID : p \in Procs } \cup { proc[p].actionID : p \in Procs }

NewID(used) == CHOOSE n \in 1..(Cardinality(used) + 1) : n \notin used

\* WHERE workspace_id = $1 AND id = $2 on wallets.
WalletRowsOf(ws, w) == { r \in WalletRows : r.WorkspaceID = ws /\ r.ID = w }

\* SELECT ... FOR UPDATE on the wallets row waits while another transaction holds it.
WalletRowLockableNoForUpdate(holder, p) == TRUE

WalletRowLockable(holder, p) == holder \in {"none", p}

\* FOR UPDATE / upsert on the wallet_balances row waits likewise.
BalanceRowLockable(holder, p) == holder \in {"none", p}

\* w.Currency != req.Currency
CurrencyMatchesAlways(walletCurrency, reqCurrency) == TRUE

CurrencyMatches(walletCurrency, reqCurrency) == walletCurrency = reqCurrency

\* WHERE workspace_id = $1 AND wallet_id = $2 AND idempotency_key = $3 on wallet_ledger.
findLedgerIgnoringKey(rows, ws, w, key) ==
  SelectSeq(rows, LAMBDA e : e.WorkspaceID = ws /\ e.WalletID = w)

findLedgerCreditsByIdempotency(rows, ws, w, key) ==
  SelectSeq(rows, LAMBDA e : /\ e.WorkspaceID = ws /\ e.WalletID = w /\ e.IdempotencyKey = key
                             /\ e.Type = LedgerEntryTypeCredit)

findLedgerByIdempotency(rows, ws, w, key) ==
  SelectSeq(rows, LAMBDA e : e.WorkspaceID = ws /\ e.WalletID = w /\ e.IdempotencyKey = key)

\* WHERE workspace_id = $1 AND wallet_id = $2 on wallet_balances.
BalanceRowsOf(rows, ws, w) == { b \in rows : b.WorkspaceID = ws /\ b.WalletID = w }

\* b.BalanceMinor < req.AmountMinor fails the debit.
SufficientFundsIfPositive(balanceMinor, amountMinor) == balanceMinor > 0

SufficientFundsOffByOne(balanceMinor, amountMinor) == ~(balanceMinor + 1 < amountMinor)

SufficientFunds(balanceMinor, amountMinor) == ~(balanceMinor < amountMinor)

\* The signed amount of the ledger entry and of the balance delta.
SignedAmount(op, amountMinor) == IF op = "Debit" THEN 0 - amountMinor ELSE amountMinor

\* INSERT ... ON CONFLICT DO UPDATE SET balance_minor = balance_minor + EXCLUDED.balance_minor
applyBalanceDeltaOverwrite(rows, ws, w, currency, deltaMinor) ==
  LET old == BalanceRowsOf(rows, ws, w) IN
  (rows \ old) \cup
    {[WorkspaceID |-> ws, WalletID |-> w, Currency |-> currency, BalanceMinor |-> deltaMinor]}

applyBalanceDelta(rows, ws, w, currency, deltaMinor) ==
  LET old == BalanceRowsOf(rows, ws, w) IN
  IF old = {}
    THEN rows \cup
      {[WorkspaceID |-> ws, WalletID |-> w, Currency |-> currency, BalanceMinor |-> deltaMinor]}
    ELSE (rows \ old) \cup { [b EXCEPT !.BalanceMinor = @ + deltaMinor] : b \in old }

RECURSIVE ApplyDeltas(_, _)
ApplyDeltas(rows, deltas) ==
  IF deltas = <<>> THEN rows
  ELSE ApplyDeltas(
         applyBalanceDelta(rows, Head(deltas).WorkspaceID, Head(deltas).WalletID,
                           Head(deltas).Currency, Head(deltas).Delta),
         Tail(deltas))

\* INSERT INTO wallet_ledger: the rows a committed transaction adds come after
\* those there; the only statement on the table that writes.
insertLedgerReplacing(rows, pend) == pend

insertLedger(rows, pend) == rows \o pend

\* Commit and Rollback end the transaction: the row locks it holds go.
KeepLocks(locks, p) == locks

ReleaseLocks(locks, p) == [k \in DOMAIN locks |-> IF locks[k] = p THEN "none" ELSE locks[k]]

\* WithTx's deferred function: roll back when fn returned an error, else commit.
CommitsRegardless(err) == TRUE

CommitsOn(err) == err = NoErr

\* --------------------------------------------------------- routing data
ActionReject == "reject"
ActionConnect == "connect"

RoleOwner == "owner"
RoleSuperAdmin == "super_admin"
RoleNetworkOperator == "network_operator"

ErrWorkspaceRequired == "routing: workspace_id required"
ErrConnectToEmpty == "routing: override connect_to empty"
ErrWalletNotConfigured == "routing: wallet service not configured"
ErrWalletIDRequired == "routing: wallet_id required when estimated cost is provided"
ErrCurrencyRequired == "routing: currency required when estimated cost is provided"
ErrCampaignsNotConfigured == "routing: campaign service not configured"
\* Errors of the collaborators' own: opaque to the engine.
ErrOverrideStore == "ErrOverrideStore"
ErrAuditSink == "ErrAuditSink"
ErrCampaignService == "ErrCampaignService"

Decision(ws, campaign, action, connectTo, reason) ==
  [WorkspaceID |-> ws, CampaignID |-> campaign, Action |-> action,
   ConnectTo |-> connectTo, Reason |-> reason]

ZeroDecision == Decision("", "", "", "", "")

Override(ws, campaign, id, connectTo, expiresAt) ==
  [WorkspaceID |-> ws, CampaignID |-> campaign, OverrideID |-> id,
   ConnectTo |-> connectTo, ExpiresAt |-> expiresAt]

ZeroOverride == Override("", "", "", "", 0)

RouteInput(ws, campaign, role, wallet, estimated, currency) ==
  [WorkspaceID |-> ws, CampaignID |-> campaign, ActorRole |-> role,
   WalletID |-> wallet, EstimatedMinor |-> estimated, Currency |-> currency]

ZeroRouteInput == RouteInput("", "", "", "", 0, "")

\* An AdminOverrideEngine: whether it has a Store and what GetActiveOverride
\* answers, whether it has an Audit sink and what LogOverrideApplied answers,
\* and what its clock reads.
OverrideEngine(store, storeErr, ok, o, audit, auditErr, now) ==
  [Store |-> [set |-> store, err |-> storeErr, ok |-> ok, o |-> o],
   Audit |-> [set |-> audit, err |-> auditErr],
   now |-> now]

NoStoreEngine == OverrideEngine(FALSE, NoErr, FALSE, ZeroOverride, TRUE, NoErr, 1)

\* A RoutingEngine: Overrides (nil or an engine), Wallet (nil or a service and
\* what GetBalance answers), Campaigns (nil or a service and what
\* EvaluateInbound answers), and what the random source draws next.
Engine(overrides, ov, wallet, campaigns, seed) ==
  [Overrides |-> [set |-> overrides, e |-> ov], Wallet |-> wallet, Campaigns |-> campaigns,
   RNG |-> seed]

CampaignEvaluation(allowed, reason, dests) ==
  [Allowed |-> allowed, Reason |-> reason, Destinations |-> dests]

ZeroEvaluation == CampaignEvaluation(FALSE, "", <<>>)

WeightedDestination(uri, weight) == [TargetURI |-> uri, Weight |-> weight]

\* The result of Decide and of Route with what the call did on the way: the
\* audit events it emitted and the collaborators it called, in order.
DecideResult(d, applied, err, audit, calls) ==
  [d |-> d, applied |-> applied, err |-> err, audit |-> audit, calls |-> calls]

RouteResult(d, err, audit, calls) == [d |-> d, err |-> err, audit |-> audit, calls |-> calls]

ZeroRouteResult == RouteResult(ZeroDecision, NoErr, <<>>, <<>>)

\* ------------------------------------------------ routing: the functions
\* time.Time.After
AfterOrEqual(t, u) == t >= u

After(t, u) == t > u

\* rbac.IsSuperAdmin
IsSuperAdminNever(role) == FALSE

IsSuperAdmin(role) == role = RoleSuperAdmin

\* AdminOverrideEngine.Decide
DecideAuditBlocks(e, workspaceID, campaignID) ==
  LET asked == <<"GetActiveOverride">>
      o == e.Store.o
  IN
  IF workspaceID = "" THEN DecideResult(ZeroDecision, FALSE, ErrWorkspaceRequired, <<>>, <<>>)
  ELSE IF ~e.Store.set THEN DecideResult(ZeroDecision, FALSE, NoErr, <<>>, <<>>)
  ELSE IF e.Store.err # NoErr THEN DecideResult(ZeroDecision, FALSE, e.Store.err, <<>>, asked)
  ELSE IF ~e.Store.ok THEN DecideResult(ZeroDecision, FALSE, NoErr, <<>>, asked)
  ELSE IF ~After(o.ExpiresAt, e.now) THEN DecideResult(ZeroDecision, FALSE, NoErr, <<>>, asked)
  ELSE IF o.ConnectTo = "" THEN DecideResult(ZeroDecision, FALSE, ErrConnectToEmpty, <<>>, asked)
  ELSE
    LET d == Decision(workspaceID, campaignID, ActionConnect, o.ConnectTo, "")
        event == [WorkspaceID |-> workspaceID, CampaignID |-> campaignID,
                  OverrideID |-> o.OverrideID, ConnectTo |-> o.ConnectTo,
                  AppliedAt |-> e.now, ExpiresAt |-> o.ExpiresAt]
    IN IF e.Audit.set /\ e.Audit.err # NoErr
         THEN DecideResult(ZeroDecision, FALSE, e.Audit.err, <<event>>,
                           asked \o <<"LogOverrideApplied">>)
       ELSE IF e.Audit.set
         THEN DecideResult(d, TRUE, NoErr, <<event>>, asked \o <<"LogOverrideApplied">>)
         ELSE DecideResult(d, TRUE, NoErr, <<>>, asked)

DecideEmptyTargetFirst(e, workspaceID, campaignID) ==
  LET asked == <<"GetActiveOverride">>
      o == e.Store.o
  IN
  IF workspaceID = "" THEN DecideResult(ZeroDecision, FALSE, ErrWorkspaceRequired, <<>>, <<>>)
  ELSE IF ~e.Store.set THEN DecideResult(ZeroDecision, FALSE, NoErr, <<>>, <<>>)
  ELSE IF e.Store.err # NoErr THEN DecideResult(ZeroDecision, FALSE, e.Store.err, <<>>, asked)
  ELSE IF ~e.Store.ok THEN DecideResult(ZeroDecision, FALSE, NoErr, <<>>, asked)
  ELSE IF o.ConnectTo = "" THEN DecideResult(ZeroDecision, FALSE, ErrConnectToEmpty, <<>>, asked)
  ELSE IF ~After(o.ExpiresAt, e.now) THEN DecideResult(ZeroDecision, FALSE, NoErr, <<>>, asked)
  ELSE
    LET d == Decision(workspaceID, campaignID, ActionConnect, o.ConnectTo, "")
        event == [WorkspaceID |-> workspaceID, CampaignID |-> campaignID,
                  OverrideID |-> o.OverrideID, ConnectTo |-> o.ConnectTo,
                  AppliedAt |-> e.now, ExpiresAt |-> o.ExpiresAt]
    IN IF e.Audit.set
         THEN DecideResult(d, TRUE, NoErr, <<event>>, asked \o <<"LogOverrideApplied">>)
         ELSE DecideResult(d, TRUE, NoErr, <<>>, asked)

Decide(e, workspaceID, campaignID) ==
  LET asked == <<"GetActiveOverride">>
      o == e.Store.o
  IN
  IF workspaceID = "" THEN DecideResult(ZeroDecision, FALSE, ErrWorkspaceRequired, <<>>, <<>>)
  ELSE IF ~e.Store.set THEN DecideResult(ZeroDecision, FALSE, NoErr, <<>>, <<>>)
  ELSE IF e.Store.err # NoErr THEN DecideResult(ZeroDecision, FALSE, e.Store.err, <<>>, asked)
  ELSE IF ~e.Store.ok THEN DecideResult(ZeroDecision, FALSE, NoErr, <<>>, asked)
  ELSE IF ~After(o.ExpiresAt, e.now) THEN DecideResult(ZeroDecision, FALSE, NoErr, <<>>, asked)
  ELSE IF o.ConnectTo = "" THEN DecideResult(ZeroDecision, FALSE, ErrConnectToEmpty, <<>>, asked)
  ELSE
    LET d == Decision(workspaceID, campaignID, ActionConnect, o.ConnectTo, "")
        event == [WorkspaceID |-> workspaceID, CampaignID |-> campaignID,
                  OverrideID |-> o.OverrideID, ConnectTo |-> o.ConnectTo,
                  AppliedAt |-> e.now, ExpiresAt |-> o.ExpiresAt]
    IN IF e.Audit.set
         THEN DecideResult(d, TRUE, NoErr, <<event>>, asked \o <<"LogOverrideApplied">>)
         ELSE DecideResult(d, TRUE, NoErr, <<>>, asked)

\* pickDestination, first loop: the sum of the positive weights.
RECURSIVE TotalWeightAll(_)
TotalWeightAll(dests) ==
  IF dests = <<>> THEN 0 ELSE Head(dests).Weight + TotalWeightAll(Tail(dests))

RECURSIVE TotalWeight(_)
TotalWeight(dests) ==
  IF dests = <<>> THEN 0
  ELSE (IF Head(dests).Weight <= 0 THEN 0 ELSE Head(dests).Weight) + TotalWeight(Tail(dests))

\* pickDestination, second loop: the first destination whose running sum passes r.
RECURSIVE PickAtInclusive(_, _, _)
PickAtInclusive(dests, r, acc) ==
  IF dests = <<>> THEN [dest |-> "", ok |-> FALSE]
  ELSE IF Head(dests).Weight <= 0 THEN PickAtInclusive(Tail(dests), r, acc)
  ELSE IF r <= acc + Head(dests).Weight THEN [dest |-> Head(dests).TargetURI, ok |-> TRUE]
  ELSE PickAtInclusive(Tail(dests), r, acc + Head(dests).Weight)

RECURSIVE PickAt(_, _, _)
PickAt(dests, r, acc) ==
  IF dests = <<>> THEN [dest |-> "", ok |-> FALSE]
  ELSE IF Head(dests).Weight <= 0 THEN PickAt(Tail(dests), r, acc)
  ELSE IF r < acc + Head(dests).Weight THEN [dest |-> Head(dests).TargetURI, ok |-> TRUE]
  ELSE PickAt(Tail(dests), r, acc + Head(dests).Weight)

\* rng.Intn(n): some number of 0..n-1, here the one the source's state gives.
Intn(seed, n) == seed % n

\* RoutingEngine.pickDestination
pickDestination(dests, seed) ==
  LET total == TotalWeight(dests) IN
  IF total <= 0 THEN [dest |-> "", ok |-> FALSE]
  ELSE PickAt(dests, Intn(seed, total), 0)

\* Route, stage 1: the privileged roles.
RoutePrivilegedPropagatesError(e, in, audit, calls) ==
  LET pick == pickDestination(e.Campaigns.ev.Destinations, e.RNG) IN
  IF in.CampaignID # "" /\ e.Campaigns.set
    THEN IF e.Campaigns.err # NoErr
           THEN RouteResult(ZeroDecision, e.Campaigns.err, audit, calls \o <<"EvaluateInbound">>)
         ELSE IF pick.ok
           THEN RouteResult(Decision(in.WorkspaceID, in.CampaignID, ActionConnect, pick.dest,
                                     "admin_override"),
                            NoErr, audit, calls \o <<"EvaluateInbound">>)
           ELSE RouteResult(Decision(in.WorkspaceID, in.CampaignID, ActionReject, "",
                                     "admin_override_no_destination"),
                            NoErr, audit, calls \o <<"EvaluateInbound">>)
    ELSE RouteResult(Decision(in.WorkspaceID, in.CampaignID, ActionReject, "",
                              "admin_override_no_destination"),
                     NoErr, audit, calls)

RoutePrivileged(e, in, audit, calls) ==
  LET pick == pickDestination(e.Campaigns.ev.Destinations, e.RNG) IN
  IF in.CampaignID # "" /\ e.Campaigns.set
    THEN IF e.Campaigns.err = NoErr /\ pick.ok
           THEN RouteResult(Decision(in.WorkspaceID, in.CampaignID, ActionConnect, pick.dest,
                                     "admin_override"),
                            NoErr, audit, calls \o <<"EvaluateInbound">>)
           ELSE RouteResult(Decision(in.WorkspaceID, in.CampaignID, ActionReject, "",
                                     "admin_override_no_destination"),
                            NoErr, audit, calls \o <<"EvaluateInbound">>)
    ELSE RouteResult(Decision(in.WorkspaceID, in.CampaignID, ActionReject, "",
                              "admin_override_no_destination"),
                     NoErr, audit, calls)

\* Route, stages 3 and 4: campaign rules, weighted destination selection.
RouteCampaignEvaluatorFirst(e, in, audit, calls) ==
  LET ev == e.Campaigns.ev
      pick == pickDestination(ev.Destinations, e.RNG)
      asked == calls \o <<"EvaluateInbound">>
  IN
  IF ~e.Campaigns.set THEN RouteResult(ZeroDecision, ErrCampaignsNotConfigured, audit, calls)
  ELSE IF in.CampaignID = ""
    THEN RouteResult(Decision(in.WorkspaceID, "", ActionReject, "", "campaign_id_required"),
                     NoErr, audit, calls)
  ELSE IF e.Campaigns.err # NoErr THEN RouteResult(ZeroDecision, e.Campaigns.err, audit, asked)
  ELSE IF ~ev.Allowed
    THEN RouteResult(Decision(in.WorkspaceID, in.CampaignID, ActionReject, "",
                              IF ev.Reason = "" THEN "campaign_blocked" ELSE ev.Reason),
                     NoErr, audit, asked)
  ELSE IF pick.ok
    THEN RouteResult(Decision(in.WorkspaceID, in.CampaignID, ActionConnect, pick.dest, "selected"),
                     NoErr, audit, asked)
  ELSE RouteResult(Decision(in.WorkspaceID, in.CampaignID, ActionReject, "",
                            "no_eligible_destination"),
                   NoErr, audit, asked)

RouteCampaignRawReason(e, in, audit, calls) ==
  LET ev == e.Campaigns.ev
      pick == pickDestination(ev.Destinations, e.RNG)
      asked == calls \o <<"EvaluateInbound">>
  IN
  IF in.CampaignID = ""
    THEN RouteResult(Decision(in.WorkspaceID, "", ActionReject, "", "campaign_id_required"),
                     NoErr, audit, calls)
  ELSE IF ~e.Campaigns.set THEN RouteResult(ZeroDecision, ErrCampaignsNotConfigured, audit, calls)
  ELSE IF e.Campaigns.err # NoErr THEN RouteResult(ZeroDecision, e.Campaigns.err, audit, asked)
  ELSE IF ~ev.Allowed
    THEN RouteResult(Decision(in.WorkspaceID, in.CampaignID, ActionReject, "",
                              ev.Reason),
                     NoErr, audit, asked)
  ELSE IF pick.ok
    THEN RouteResult(Decision(in.WorkspaceID, in.CampaignID, ActionConnect, pick.dest, "selected"),
                     NoErr, audit, asked)
  ELSE RouteResult(Decision(in.WorkspaceID, in.CampaignID, ActionReject, "",
                            "no_eligible_destination"),
                   NoErr, audit, asked)

RouteCampaign(e, in, audit, calls) ==
  LET ev == e.Campaigns.ev
      pick == pickDestination(ev.Destinations, e.RNG)
      asked == calls \o <<"EvaluateInbound">>
  IN
  IF in.CampaignID = ""
    THEN RouteResult(Decision(in.WorkspaceID, "", ActionReject, "", "campaign_id_required"),
                     NoErr, audit, calls)
  ELSE IF ~e.Campaigns.set THEN RouteResult(ZeroDecision, ErrCampaignsNotConfigured, audit, calls)
  ELSE IF e.Campaigns.err # NoErr THEN RouteResult(ZeroDecision, e.Campaigns.err, audit, asked)
  ELSE IF ~ev.Allowed
    THEN RouteResult(Decision(in.WorkspaceID, in.CampaignID, ActionReject, "",
                              IF ev.Reason = "" THEN "campaign_blocked" ELSE ev.Reason),
                     NoErr, audit, asked)
  ELSE IF pick.ok
    THEN RouteResult(Decision(in.WorkspaceID, in.CampaignID, ActionConnect, pick.dest, "selected"),
                     NoErr, audit, asked)
  ELSE RouteResult(Decision(in.WorkspaceID, in.CampaignID, ActionReject, "",
                            "no_eligible_destination"),
                   NoErr, audit, asked)

\* Route, stage 2: the wallet balance, then on to the campaign.
RouteWalletSkipsGate(e, in, audit, calls) == RouteCampaign(e, in, audit, calls)

RouteWalletRejectsEqual(e, in, audit, calls) ==
  LET asked == calls \o <<"GetBalance">> IN
  IF in.EstimatedMinor > 0
    THEN IF ~e.Wallet.set THEN RouteResult(ZeroDecision, ErrWalletNotConfigured, audit, calls)
         ELSE IF in.WalletID = "" THEN RouteResult(ZeroDecision, ErrWalletIDRequired, audit, calls)
         ELSE IF in.Currency = "" THEN RouteResult(ZeroDecision, ErrCurrencyRequired, audit, calls)
         ELSE IF e.Wallet.err # NoErr THEN RouteResult(ZeroDecision, e.Wallet.err, audit, asked)
         ELSE IF e.Wallet.bal.Currency # in.Currency
           THEN RouteResult(Decision(in.WorkspaceID, in.CampaignID, ActionReject, "",
                                     "wallet_currency_mismatch"),
                            NoErr, audit, asked)
         ELSE IF e.Wallet.bal.BalanceMinor <= in.EstimatedMinor
           THEN RouteResult(Decision(in.WorkspaceID, in.CampaignID, ActionReject, "",
                                     "insufficient_balance"),
                            NoErr, audit, asked)
         ELSE RouteCampaign(e, in, audit, asked)
    ELSE RouteCampaign(e, in, audit, calls)

RouteWallet(e, in, audit, calls) ==
  LET asked == calls \o <<"GetBalance">> IN
  IF in.EstimatedMinor > 0
    THEN IF ~e.Wallet.set THEN RouteResult(ZeroDecision, ErrWalletNotConfigured, audit, calls)
         ELSE IF in.WalletID = "" THEN RouteResult(ZeroDecision, ErrWalletIDRequired, audit, calls)
         ELSE IF in.Currency = "" THEN RouteResult(ZeroDecision, ErrCurrencyRequired, audit, calls)
         ELSE IF e.Wallet.err # NoErr THEN RouteResult(ZeroDecision, e.Wallet.err, audit, asked)
         ELSE IF e.Wallet.bal.Currency # in.Currency
           THEN RouteResult(Decision(in.WorkspaceID, in.CampaignID, ActionReject, "",
                                     "wallet_currency_mismatch"),
                            NoErr, audit, asked)
         ELSE IF e.Wallet.bal.BalanceMinor < in.EstimatedMinor
           THEN RouteResult(Decision(in.WorkspaceID, in.CampaignID, ActionReject, "",
                                     "insufficient_balance"),
                            NoErr, audit, asked)
         ELSE RouteCampaign(e, in, audit, asked)
    ELSE RouteCampaign(e, in, audit, calls)

\* Route past the override stage.
RouteNormal(e, in, audit, calls) ==
  IF IsSuperAdmin(in.ActorRole) \/ in.ActorRole = RoleNetworkOperator
    THEN RoutePrivileged(e, in, audit, calls)
    ELSE RouteWallet(e, in, audit, calls)

\* RoutingEngine.Route
Route(e, in) ==
  LET dec == Decide(e.Overrides.e, in.WorkspaceID, in.CampaignID) IN
  IF in.WorkspaceID = "" THEN RouteResult(ZeroDecision, ErrWorkspaceRequired, <<>>, <<>>)
  ELSE IF e.Overrides.set
    THEN IF dec.err # NoErr THEN RouteResult(ZeroDecision, dec.err, dec.audit, dec.calls)
         ELSE IF dec.applied THEN RouteResult(dec.d, NoErr, dec.audit, dec.calls)
         ELSE RouteNormal(e, in, dec.audit, dec.calls)
    ELSE RouteNormal(e, in, <<>>, <<>>)

\* ------------------------------------------- routing: inputs of the runs
RouteInputs ==
  { RouteInput("ws1", c, r, w, est, cur) :
      c \in {"", "c1"}, r \in {RoleOwner, RoleSuperAdmin, RoleNetworkOperator},
      w \in {"", "w1"}, est \in (0 - 1)..MaxCost, cur \in {"", "USD"} }
  \cup
  { RouteInput("", "c1", r, "w1", 0, "USD") :
      r \in {RoleOwner, RoleSuperAdmin, RoleNetworkOperator} }

\* What the override store may hold for the call: a target or none, an expiry
\* before, at and after the clock's reading, and an override of another
\* workspace.
StoredOverrides ==
  { Override("ws1", "c1", "ov1", t, x) : t \in {"", "sip:b"}, x \in 0..(MaxNow + 1) }
  \cup
  { Override("ws2", "c1", "ov2", "sip:b", MaxNow + 1) }

OverrideEngines ==
  { NoStoreEngine,
    OverrideEngine(TRUE, ErrOverrideStore, FALSE, ZeroOverride, TRUE, NoErr, 1),
    OverrideEngine(TRUE, NoErr, FALSE, ZeroOverride, TRUE, NoErr, 1) }
  \cup
  { OverrideEngine(TRUE, NoErr, TRUE, o, TRUE, ae, now) :
      o \in StoredOverrides, ae \in {NoErr, ErrAuditSink}, now \in 1..MaxNow }
  \cup
  { OverrideEngine(TRUE, NoErr, TRUE, o, FALSE, NoErr, now) : o \in StoredOverrides, now \in 1..MaxNow }

WalletAnswers ==
  { [set |-> FALSE, err |-> NoErr, bal |-> ZeroBalance],
    [set |-> TRUE, err |-> ErrNotFound, bal |-> ZeroBalance],
    [set |-> TRUE, err |-> NoErr,
     bal |-> [WorkspaceID |-> "ws1", WalletID |-> "w1", Currency |-> "EUR",
              BalanceMinor |-> MaxCost]] }
  \cup
  { [set |-> TRUE, err |-> NoErr,
     bal |-> [WorkspaceID |-> "ws1", WalletID |-> "w1", Currency |-> "USD", BalanceMinor |-> b]] :
      b \in 0..MaxCost }

\* Destination lists with the draw of the random source: none, one that no
\* weight makes eligible, one with a weight to skip, one whose target is
\* empty, one with a choice.
DestinationDraws ==
  { <<<<>>, 0>>,
    << <<WeightedDestination("", 1)>>, 0 >>,
    << <<WeightedDestination("sip:a", 0 - 1)>>, 0 >>,
    << <<WeightedDestination("sip:a", 0), WeightedDestination("sip:b", 1)>>, 0 >> }
  \cup
  { << <<WeightedDestination("sip:a", 1), WeightedDestination("sip:b", 2)>>, seed >> :
      seed \in 0..2 }

CampaignAnswers ==
  { <<[set |-> FALSE, err |-> NoErr, ev |-> ZeroEvaluation], 0>>,
    <<[set |-> TRUE, err |-> ErrCampaignService, ev |-> ZeroEvaluation], 0>> }
  \cup
  { <<[set |-> TRUE, err |-> NoErr, ev |-> CampaignEvaluation(TRUE, "", dd[1])], dd[2]>> :
      dd \in DestinationDraws }
  \cup
  { <<[set |-> TRUE, err |-> NoErr, ev |-> CampaignEvaluation(FALSE, reason, dd[1])], dd[2]>> :
      reason \in {"", "closed"}, dd \in DestinationDraws }

Engines ==
  { Engine(FALSE, NoStoreEngine, w, c[1], c[2]) : w \in WalletAnswers, c \in CampaignAnswers }
  \cup
  { Engine(TRUE, ov, w, c[1], c[2]) :
      ov \in OverrideEngines, w \in WalletAnswers, c \in CampaignAnswers }

\* A call of pickDestination not yet made.
IdlePick == [pc |-> "idle", dests |-> <<>>, seed |-> 0, out |-> [dest |-> "", ok |-> FALSE]]

IdleRoute == [pc |-> "idle", in |-> ZeroRouteInput, e |-> CHOOSE e \in Engines : TRUE,
              out |-> ZeroRouteResult]

\* ------------------------------- routing: concurrent calls on one engine
\* The goroutines calling Route on the one engine.
Callers == {"r1", "r2"}

\* What the engine's campaign evaluator gives every call: a choice of two.
ConcDestinations == <<WeightedDestination("sip:a", 1), WeightedDestination("sip:b", MaxWeight)>>

\* The states of the engine's random source: one per draw of that list.
RNGStates == 0..MaxWeight

ConcInputs ==
  { RouteInput(ws, c, r, "", 0, "") :
      ws \in {"ws1"}, c \in {"", "c1"}, r \in {RoleOwner, RoleSuperAdmin} }

\* A call of Route not yet made: its position, its input, the state of the
\* random source it loaded, whether one of its steps met state another call was
\* in the middle of updating, and its result.
IdleCall ==
  [pc |-> "idle", in |-> ZeroRouteInput, seen |-> 0, raced |-> FALSE, d |-> ZeroDecision,
   err |-> NoErr]

\* The engine before its first call: no Overrides, nothing called.
IdleConc ==
  [Overrides |-> FALSE, applies |-> FALSE, Now |-> "nil",
   RNG |-> [set |-> FALSE, state |-> 0],
   call |-> [c \in Callers |-> IdleCall]]

\* -------------------------------------------------- concurrency cap data
\* The callers of AcquireConcurrencyCap / ReleaseConcurrencyCap on one key.
CapCallers == {"a1", "a2", "a3", "a4"}

\* A key of the Redis store: absent, or a counter that has a TTL or none.
AbsentKey == [exists |-> FALSE, count |-> 0, ttl |-> FALSE]

\* The key before its first call: absent, no caller holds a slot.
IdleCap ==
  [limit |-> 1, key |-> AbsentKey, holders |-> {},
   last |-> [op |-> "", before |-> 0, after |-> 0, ok |-> FALSE]]

\* ------------------------------------------------------------- Init
WalletInit ==
  /\ ledger = <<>>
  /\ balances = {}
  /\ actions = {}
  /\ walletLock = [k \in WalletKeys |-> "none"]
  /\ balLock = [k \in WalletKeys |-> "none"]
  /\ proc = [p \in Procs |-> IdleProc]
  /\ posts = [k \in WalletKeys \X Keys |-> <<>>]

Init ==
  /\ WalletInit
  /\ vreq = ZeroReq
  /\ route = IdleRoute
  /\ pickCall = IdlePick
  /\ conc = IdleConc
  /\ cap = IdleCap

\* ------------------------------------------------- wallet operations
\* The row a transaction locks: the one of its request's workspace and wallet.
WKeyAnyWallet(p) == <<"ws1", "w1">>

WKey(p) == <<proc[p].req.ws, proc[p].req.wallet>>

SetProc(p, r) == proc' = [proc EXCEPT ![p] = r]

\* fn returned err: the deferred function of WithTx runs next.
FnReturns(p, err) == SetProc(p, [proc[p] EXCEPT !.pc = "end", !.err = err])

\* Credit / Debit / AdminManualCredit up to WithTx: validation, clock, uuids.
Call(p, r) ==
  /\ proc[p].pc \in {"idle", "invalid"}
  /\ IF Validate(r) # NoErr
       THEN SetProc(p, [IdleProc EXCEPT !.pc = "invalid", !.req = r, !.err = Validate(r)])
       ELSE SetProc(p, [IdleProc EXCEPT !.pc = "begin", !.req = r])
  /\ UNCHANGED <<ledger, balances, actions, walletLock, balLock, posts, vreq, route, pickCall, conc, cap>>

\* db.BeginTx: on an error WithTx returns it without calling fn.
BeginTx(p) ==
  /\ proc[p].pc = "begin"
  /\ \E fails \in BOOLEAN :
       IF fails
         THEN SetProc(p, [IdleProc EXCEPT !.err = ErrStore])
         ELSE SetProc(p, [proc[p] EXCEPT !.pc = "lock", !.began = TRUE])
  /\ UNCHANGED <<ledger, balances, actions, walletLock, balLock, posts, vreq, route, pickCall, conc, cap>>

\* lockWallet, then the currency check on the row it returned.
LockWallet(p) ==
  /\ proc[p].pc = "lock"
  /\ \E fails \in BOOLEAN :
       LET rows == WalletRowsOf(proc[p].req.ws, proc[p].req.wallet) IN
       IF fails
         THEN FnReturns(p, ErrStore) /\ UNCHANGED walletLock
       ELSE IF rows = {}
         THEN FnReturns(p, ErrNotFound) /\ UNCHANGED walletLock
       ELSE /\ WalletRowLockable(walletLock[WKey(p)], p)
            /\ walletLock' = [walletLock EXCEPT ![WKey(p)] = p]
            /\ LET w == CHOOSE r \in rows : TRUE IN
               IF ~CurrencyMatches(w.Currency, proc[p].req.currency)
                 THEN FnReturns(p, ErrInvalidArgument)
                 ELSE SetProc(p, [proc[p] EXCEPT !.pc = "idem"])
  /\ UNCHANGED <<ledger, balances, actions, balLock, posts, vreq, route, pickCall, conc, cap>>

\* findLedgerByIdempotency and the branch on its result.
FindLedger(p) ==
  /\ proc[p].pc = "idem"
  /\ \E fails \in BOOLEAN :
       LET found == findLedgerByIdempotency(ledger, proc[p].req.ws, proc[p].req.wallet,
                                            proc[p].req.key) IN
       IF fails
         THEN FnReturns(p, ErrStore)
       ELSE IF found # <<>>
         THEN SetProc(p, [proc[p] EXCEPT
                !.retry = TRUE, !.outLedger = found[1],
                !.pc = IF proc[p].req.op = "AdminManualCredit" THEN "findact" ELSE "getbal"])
       ELSE SetProc(p, [proc[p] EXCEPT
                !.pc = IF proc[p].req.op = "Debit" THEN "forupdate" ELSE "insert"])
  /\ UNCHANGED <<ledger, balances, actions, walletLock, balLock, posts, vreq, route, pickCall, conc, cap>>

\* findAdminActionByLedger on the idempotent branch of AdminManualCredit.
FindAdminAction(p) ==
  /\ proc[p].pc = "findact"
  /\ \E fails \in BOOLEAN :
       LET acts == { a \in actions : /\ a.WorkspaceID = proc[p].req.ws
                                     /\ a.WalletID = proc[p].req.wallet
                                     /\ a.RelatedLedgerID = proc[p].outLedger.ID } IN
       IF fails
         THEN FnReturns(p, ErrStore)
       ELSE IF acts # {}
         THEN SetProc(p, [proc[p] EXCEPT !.pc = "getbal",
                                         !.outAction = CHOOSE a \in acts : TRUE])
       ELSE SetProc(p, [proc[p] EXCEPT !.pc = "getbal"])
  /\ UNCHANGED <<ledger, balances, actions, walletLock, balLock, posts, vreq, route, pickCall, conc, cap>>

\* getBalanceTx on the idempotent branch: the balance as it is now.
GetBalanceTx(p) ==
  /\ proc[p].pc = "getbal"
  /\ \E fails \in BOOLEAN :
       LET rows == BalanceRowsOf(balances, proc[p].req.ws, proc[p].req.wallet) IN
       IF fails
         THEN FnReturns(p, ErrStore)
       ELSE IF rows = {}
         THEN FnReturns(p, ErrNotFound)
       ELSE SetProc(p, [proc[p] EXCEPT !.pc = "end", !.err = NoErr,
                                       !.outBal = CHOOSE b \in rows : TRUE])
  /\ UNCHANGED <<ledger, balances, actions, walletLock, balLock, posts, vreq, route, pickCall, conc, cap>>

\* Debit: getBalanceForUpdate, the currency check and the funds check.
GetBalanceForUpdate(p) ==
  /\ proc[p].pc = "forupdate"
  /\ \E fails \in BOOLEAN :
       LET rows == BalanceRowsOf(balances, proc[p].req.ws, proc[p].req.wallet) IN
       IF fails
         THEN FnReturns(p, ErrStore) /\ UNCHANGED balLock
       ELSE IF rows = {}
         THEN FnReturns(p, ErrNotFound) /\ UNCHANGED balLock
       ELSE /\ BalanceRowLockable(balLock[WKey(p)], p)
            /\ balLock' = [balLock EXCEPT ![WKey(p)] = p]
            /\ LET b == CHOOSE r \in rows : TRUE IN
               IF b.Currency # proc[p].req.currency
                 THEN FnReturns(p, ErrInvalidArgument)
               ELSE IF ~SufficientFunds(b.BalanceMinor, proc[p].req.amount)
                 THEN FnReturns(p, ErrInsufficientFunds)
               ELSE SetProc(p, [proc[p] EXCEPT !.pc = "insert"])
  /\ UNCHANGED <<ledger, balances, actions, walletLock, posts, vreq, route, pickCall, conc, cap>>

\* The entry each operation builds.
NewEntry(p, ledgerID) ==
  [ID |-> ledgerID, WorkspaceID |-> proc[p].req.ws, WalletID |-> proc[p].req.wallet,
   Type |-> IF proc[p].req.op = "Debit" THEN LedgerEntryTypeDebit ELSE LedgerEntryTypeCredit,
   AmountMinor |-> SignedAmount(proc[p].req.op, proc[p].req.amount),
   Currency |-> proc[p].req.currency,
   ExternalRef |-> IF proc[p].req.op = "AdminManualCredit" THEN "admin_manual_credit" ELSE "",
   IdempotencyKey |-> proc[p].req.key]

\* insertLedger: the row is the transaction's own until it commits.
InsertLedger(p) ==
  /\ proc[p].pc = "insert"
  /\ \E fails \in BOOLEAN :
       LET ledgerID == NewID(UsedIDs)
           actionID == IF proc[p].req.op = "AdminManualCredit"
                         THEN NewID(UsedIDs \cup {ledgerID}) ELSE 0
       IN IF fails
            THEN FnReturns(p, ErrStore)
            ELSE SetProc(p, [proc[p] EXCEPT !.pc = "delta", !.ledgerID = ledgerID,
                                            !.actionID = actionID,
                                            !.pendLedger = <<NewEntry(p, ledgerID)>>])
  /\ UNCHANGED <<ledger, balances, actions, walletLock, balLock, posts, vreq, route, pickCall, conc, cap>>

\* applyBalanceDelta: the upsert takes the row, and returns the row as updated.
ApplyBalanceDelta(p) ==
  /\ proc[p].pc = "delta"
  /\ \E fails \in BOOLEAN :
       IF fails
         THEN FnReturns(p, ErrStore) /\ UNCHANGED balLock
         ELSE /\ BalanceRowLockable(balLock[WKey(p)], p)
              /\ balLock' = [balLock EXCEPT ![WKey(p)] = p]
              /\ LET delta == SignedAmount(proc[p].req.op, proc[p].req.amount)
                     after == applyBalanceDelta(balances, proc[p].req.ws, proc[p].req.wallet,
                                                proc[p].req.currency, delta)
                     b == CHOOSE r \in BalanceRowsOf(after, proc[p].req.ws, proc[p].req.wallet) : TRUE
                     pend == <<[WorkspaceID |-> proc[p].req.ws, WalletID |-> proc[p].req.wallet,
                                Currency |-> proc[p].req.currency, Delta |-> delta]>>
                 IN IF proc[p].req.op = "AdminManualCredit"
                      THEN SetProc(p, [proc[p] EXCEPT !.pc = "insact", !.pendBal = pend,
                                                      !.b = b])
                      ELSE SetProc(p, [proc[p] EXCEPT !.pc = "end", !.err = NoErr,
                                                      !.pendBal = pend, !.outBal = b,
                                                      !.outLedger = proc[p].pendLedger[1]])
  /\ UNCHANGED <<ledger, balances, actions, walletLock, posts, vreq, route, pickCall, conc, cap>>

\* The admin action AdminManualCredit builds for its entry.
NewAdminActionUnlinked(p, entry) ==
  [ID |-> proc[p].actionID, WorkspaceID |-> proc[p].req.ws,
   WalletID |-> proc[p].req.wallet, AdminUserID |-> proc[p].req.adminUser,
   AdminRole |-> proc[p].req.adminRole,
   Action |-> AdminWalletActionTypeAdjustBalance,
   Reason |-> proc[p].req.reason, AmountMinor |-> proc[p].req.amount,
   Currency |-> proc[p].req.currency, RelatedLedgerID |-> 0]

NewAdminAction(p, entry) ==
  [ID |-> proc[p].actionID, WorkspaceID |-> proc[p].req.ws,
   WalletID |-> proc[p].req.wallet, AdminUserID |-> proc[p].req.adminUser,
   AdminRole |-> proc[p].req.adminRole,
   Action |-> AdminWalletActionTypeAdjustBalance,
   Reason |-> proc[p].req.reason, AmountMinor |-> proc[p].req.amount,
   Currency |-> proc[p].req.currency, RelatedLedgerID |-> entry.ID]

\* AdminManualCredit: insertAdminAction, linking the action to the new entry.
InsertAdminAction(p) ==
  /\ proc[p].pc = "insact"
  /\ \E fails \in BOOLEAN :
       LET entry == proc[p].pendLedger[1]
           action == NewAdminAction(p, entry)
       IN IF fails
            THEN FnReturns(p, ErrStore)
            ELSE SetProc(p, [proc[p] EXCEPT !.pc = "end", !.err = NoErr,
                                            !.pendAction = <<action>>,
                                            !.outAction = action, !.outLedger = entry,
                                            !.outBal = proc[p].b])
  /\ UNCHANGED <<ledger, balances, actions, walletLock, balLock, posts, vreq, route, pickCall, conc, cap>>

\* The caller has its result; its next call starts afresh.
Returned(err) == [IdleProc EXCEPT !.err = err]

\* The deferred function of WithTx: Rollback when fn returned an error, else
\* Commit, whose own error becomes the result. Either way the locks go.
TxEnd(p) ==
  /\ proc[p].pc = "end"
  /\ \E commitFails \in BOOLEAN :
       IF CommitsOn(proc[p].err) /\ ~commitFails
         THEN /\ ledger' = insertLedger(ledger, proc[p].pendLedger)
              /\ balances' = ApplyDeltas(balances, proc[p].pendBal)
              /\ actions' = actions \cup SeqToSet(proc[p].pendAction)
              /\ posts' = IF proc[p].pendLedger = <<>> THEN posts
                          ELSE [posts EXCEPT ![<<WKey(p), proc[p].req.key>>] =
                                  Append(@, [ID |-> proc[p].outLedger.ID,
                                             AmountMinor |-> proc[p].outLedger.AmountMinor,
                                             BalanceMinor |-> proc[p].outBal.BalanceMinor])]
              /\ SetProc(p, Returned(NoErr))
         ELSE /\ UNCHANGED <<ledger, balances, actions, posts>>
              /\ SetProc(p, Returned(IF proc[p].err = NoErr THEN ErrStore ELSE proc[p].err))
  /\ walletLock' = ReleaseLocks(walletLock, p)
  /\ balLock' = ReleaseLocks(balLock, p)
  /\ UNCHANGED <<vreq, route, pickCall, conc, cap>>

TxStep(p) ==
  \/ BeginTx(p)
  \/ LockWallet(p)
  \/ FindLedger(p)
  \/ FindAdminAction(p)
  \/ GetBalanceTx(p)
  \/ GetBalanceForUpdate(p)
  \/ InsertLedger(p)
  \/ ApplyBalanceDelta(p)
  \/ InsertAdminAction(p)
  \/ TxEnd(p)

Next ==
  \E p \in Procs :
    \/ \E r \in RunReqs : Call(p, r)
    \/ TxStep(p)

\* Concurrent callers of the wallet service, all on one wallet of the table.
Spec == Init /\ [][Next]_vars

\* ------------------------------------------- runs on two wallets
NextTwoWallets ==
  \E p \in Procs :
    \/ \E r \in TwoWalletReqs : Call(p, r)
    \/ TxStep(p)

\* Concurrent callers on either wallet of the table.
TwoWalletSpec == Init /\ [][NextTwoWallets]_vars

\* A step of p's transaction other than its wait for the wallet row: the
\* goroutine runs and the store answers each statement, with rows or an error.
Runs(p) == TxStep(p) /\ proc[p].pc # "lock"

\* p's SELECT ... FOR UPDATE on the wallets row returns the row.
Acquires(p) == LockWallet(p) /\ proc'[p].pc # "end"

\* The same callers under fair scheduling: a transaction past its wait keeps
\* running, and a transaction waiting for a row that is released again and
\* again gets it (the store queues the waiters of a row lock).
NextLive ==
  \E p \in Procs :
    \/ \E r \in LiveReqs : Call(p, r)
    \/ TxStep(p)

LiveSpec ==
  /\ Init /\ [][NextLive]_vars
  /\ \A p \in Procs : WF_vars(Runs(p)) /\ SF_vars(Acquires(p))

\* One caller, one request drawn from every shape of argument, called again
\* and again: what validation lets through runs as a transaction.
InitValidation ==
  /\ WalletInit
  /\ vreq \in AllReqs
  /\ route = IdleRoute
  /\ pickCall = IdlePick
  /\ conc = IdleConc
  /\ cap = IdleCap

NextValidation ==
  \/ Call("p1", vreq)
  \/ TxStep("p1")

ValidationSpec == InitValidation /\ [][NextValidation]_vars

\* ------------------------------------------------------ routing runs
CallRoute ==
  /\ route.pc = "call"
  /\ route' = [route EXCEPT !.pc = "done", !.out = Route(route.e, route.in)]
  /\ UNCHANGED <<ledger, balances, actions, walletLock, balLock, proc, posts, vreq, pickCall, conc, cap>>

InitRoute ==
  /\ WalletInit
  /\ vreq = ZeroReq
  /\ route \in { [pc |-> "call", in |-> in, e |-> e, out |-> ZeroRouteResult] :
                    in \in RouteInputs, e \in Engines }
  /\ pickCall = IdlePick
  /\ conc = IdleConc
  /\ cap = IdleCap

NextRoute == CallRoute

\* One call of Route for every input on every engine.
RouteSpec == InitRoute /\ [][NextRoute]_vars

\* ------------------------------------------------ pickDestination runs
\* The i-th destination of a list: each position its own target.
DestinationURI(i) == "sip:" \o ToString(i)

\* Every list of up to MaxDests destinations with weights from negative to
\* MaxWeight.
DestinationLists ==
  UNION { { [i \in 1..n |-> WeightedDestination(DestinationURI(i), w[i])] :
              w \in [1..n -> (0 - 1)..MaxWeight] } : n \in 0..MaxDests }

\* What the random source may give: enough to reach every draw of every list.
Seeds == 0..(MaxDests * MaxWeight - 1)

CallPick ==
  /\ pickCall.pc = "call"
  /\ pickCall' = [pickCall EXCEPT !.pc = "done",
                                 !.out = pickDestination(pickCall.dests, pickCall.seed)]
  /\ UNCHANGED <<ledger, balances, actions, walletLock, balLock, proc, posts, vreq, route, conc, cap>>

InitPick ==
  /\ WalletInit
  /\ vreq = ZeroReq
  /\ route = IdleRoute
  /\ conc = IdleConc
  /\ cap = IdleCap
  /\ pickCall \in { [pc |-> "call", dests |-> d, seed |-> sd, out |-> [dest |-> "", ok |-> FALSE]] :
                   d \in DestinationLists, sd \in Seeds }

NextPick == CallPick

\* One call of pickDestination for every list and every draw.
PickSpec == InitPick /\ [][NextPick]_vars

\* ------------------------------------- concurrent calls of Route, runs
\* The engine of the concurrent runs as Route sees it when the random source
\* draws r: an override store that answers with an applicable override or with
\* none, no wallet service, a campaign evaluator that allows the call.
ConcEngine(r) ==
  Engine(conc.Overrides,
         OverrideEngine(TRUE, NoErr, conc.applies,
                        IF conc.applies THEN Override("ws1", "c1", "ov1", "sip:b", MaxNow + 1)
                                        ELSE ZeroOverride,
                        TRUE, NoErr, 1),
         [set |-> FALSE, err |-> NoErr, bal |-> ZeroBalance],
         [set |-> TRUE, err |-> NoErr, ev |-> CampaignEvaluation(TRUE, "", ConcDestinations)],
         r)

\* The call reaches rng.Intn in pickDestination.
ReachesIntn(in) ==
  /\ Route(ConcEngine(0), in).err = NoErr
  /\ Route(ConcEngine(0), in).d.Reason \in {"selected", "admin_override"}

SetCall(c, r) == conc' = [conc EXCEPT !.call[c] = r]

\* Another call is at position pc.
OtherAt(c, pc) == \E o \in Callers \ {c} : conc.call[o].pc = pc

\* Route returns, the random source having drawn r.
RouteReturns(c, r) ==
  [conc.call[c] EXCEPT !.pc = "done", !.d = Route(ConcEngine(r), conc.call[c].in).d,
                       !.err = Route(ConcEngine(r), conc.call[c].in).err]

\* Route up to the first access of a field of the engine: with Overrides set,
\* Decide and its test of e.Now.
ConcCall(c, in) ==
  /\ conc.call[c].pc \in {"idle", "done"}
  /\ SetCall(c, [IdleCall EXCEPT !.in = in,
                                 !.pc = IF conc.Overrides THEN "checkNow" ELSE "route"])
  /\ UNCHANGED <<ledger, balances, actions, walletLock, balLock, proc, posts, vreq, route,
                 pickCall, cap>>

\* Decide: if e.Now == nil. The read meets a write when another call is between
\* its own test and its assignment.
ConcCheckNow(c) ==
  /\ conc.call[c].pc = "checkNow"
  /\ SetCall(c, [conc.call[c] EXCEPT
                   !.pc = IF conc.Now = "nil" THEN "setNow" ELSE "route",
                   !.raced = @ \/ OtherAt(c, "setNow")])
  /\ UNCHANGED <<ledger, balances, actions, walletLock, balLock, proc, posts, vreq, route,
                 pickCall, cap>>

\* Decide: e.Now = time.Now.
ConcSetNow(c) ==
  /\ conc.call[c].pc = "setNow"
  /\ conc' = [conc EXCEPT !.Now = "time.Now",
                          !.call[c].pc = "route",
                          !.call[c].raced = @ \/ OtherAt(c, "setNow")]
  /\ UNCHANGED <<ledger, balances, actions, walletLock, balLock, proc, posts, vreq, route,
                 pickCall, cap>>

\* The rest of Decide and Route up to rng.Intn: the collaborators' answers.
ConcRoute(c) ==
  /\ conc.call[c].pc = "route"
  /\ IF ReachesIntn(conc.call[c].in)
       THEN SetCall(c, [conc.call[c] EXCEPT !.pc = "intn"])
       ELSE SetCall(c, RouteReturns(c, 0))
  /\ UNCHANGED <<ledger, balances, actions, walletLock, balLock, proc, posts, vreq, route,
                 pickCall, cap>>

\* pickDestination with e.RNG == nil: a source of the call's own, any draw.
ConcIntnOwnSource(c) ==
  /\ conc.call[c].pc = "intn"
  /\ ~conc.RNG.set
  /\ \E r \in 0..(TotalWeight(ConcDestinations) - 1) : SetCall(c, RouteReturns(c, r))
  /\ UNCHANGED <<ledger, balances, actions, walletLock, balLock, proc, posts, vreq, route,
                 pickCall, cap>>

\* rng.Intn on the engine's source, first half: it loads the source's state.
ConcIntnLoad(c) ==
  /\ conc.call[c].pc = "intn"
  /\ conc.RNG.set
  /\ SetCall(c, [conc.call[c] EXCEPT !.pc = "intnStore", !.seen = conc.RNG.state,
                                     !.raced = @ \/ OtherAt(c, "intnStore")])
  /\ UNCHANGED <<ledger, balances, actions, walletLock, balLock, proc, posts, vreq, route,
                 pickCall, cap>>

\* rng.Intn, second half: it stores the next state and returns the draw. A
\* *rand.Rand is not safe for concurrent use: when another call was in the
\* middle of its own Intn the draw and the state left are any, and the source
\* may index outside its vector, which panics.
ConcIntnStore(c) ==
  /\ conc.call[c].pc = "intnStore"
  /\ LET total == TotalWeight(ConcDestinations)
         races == conc.call[c].raced \/ OtherAt(c, "intnStore") \/ conc.RNG.state # conc.call[c].seen
     IN IF races
          THEN \/ \E r \in 0..(total - 1), st \in RNGStates :
                    conc' = [conc EXCEPT !.RNG.state = st,
                                         !.call[c] = [RouteReturns(c, r) EXCEPT !.raced = TRUE]]
               \/ conc' = [conc EXCEPT !.call[c].pc = "panic", !.call[c].raced = TRUE]
          ELSE conc' = [conc EXCEPT
                          !.RNG.state = (conc.call[c].seen + 1) % Cardinality(RNGStates),
                          !.call[c] = RouteReturns(c, Intn(conc.call[c].seen, total))]
  /\ UNCHANGED <<ledger, balances, actions, walletLock, balLock, proc, posts, vreq, route,
                 pickCall, cap>>

\* An engine with or without Overrides, Now assigned or not (a literal
\* &AdminOverrideEngine{} leaves it nil), RNG given or nil.
InitConc ==
  /\ WalletInit
  /\ vreq = ZeroReq
  /\ route = IdleRoute
  /\ pickCall = IdlePick
  /\ cap = IdleCap
  /\ conc \in { [IdleConc EXCEPT !.Overrides = ov[1], !.applies = ov[2], !.Now = now,
                                 !.RNG = [set |-> rng, state |-> 0]] :
                  ov \in {<<FALSE, FALSE>>, <<TRUE, FALSE>>, <<TRUE, TRUE>>},
                  now \in {"nil", "time.Now"}, rng \in BOOLEAN }

NextConc ==
  \E c \in Callers :
    \/ \E in \in ConcInputs : ConcCall(c, in)
    \/ ConcCheckNow(c)
    \/ ConcSetNow(c)
    \/ ConcRoute(c)
    \/ ConcIntnOwnSource(c)
    \/ ConcIntnLoad(c)
    \/ ConcIntnStore(c)

\* Two goroutines calling Route on one engine, again and again.
ConcSpec == InitConc /\ [][NextConc]_vars

\* ------------------------------------------------- concurrency cap, runs
\* GET of the counter: an absent key counts as 0.
CounterOf(key) == IF key.exists THEN key.count ELSE 0

\* concurrencyAcquireScript, run atomically by the store: INCR; PEXPIRE when
\* the counter is new or has no TTL (a TTL there is left as it is); above the
\* limit DECR and 0, else 1.
concurrencyAcquireScript(key, limit) ==
  LET current == CounterOf(key) + 1 IN
  IF current > limit
    THEN [key |-> [exists |-> TRUE, count |-> current - 1, ttl |-> TRUE], res |-> 0]
    ELSE [key |-> [exists |-> TRUE, count |-> current, ttl |-> TRUE], res |-> 1]

\* concurrencyReleaseScript: DECR (an absent key becomes -1); DEL at 0 or less.
concurrencyReleaseScript(key) ==
  LET current == CounterOf(key) - 1 IN
  IF current <= 0 THEN AbsentKey ELSE [key EXCEPT !.count = current]

\* AcquireConcurrencyCap by a caller that holds no slot.
AcquireConcurrencyCap(c) ==
  /\ c \notin cap.holders
  /\ LET out == concurrencyAcquireScript(cap.key, cap.limit) IN
     cap' = [cap EXCEPT !.key = out.key,
                        !.holders = IF out.res = 1 THEN @ \cup {c} ELSE @,
                        !.last = [op |-> "acquire", before |-> CounterOf(cap.key),
                                  after |-> CounterOf(out.key), ok |-> out.res = 1]]
  /\ UNCHANGED <<ledger, balances, actions, walletLock, balLock, proc, posts, vreq, route,
                 pickCall, conc>>

\* ReleaseConcurrencyCap by a caller that had acquired a slot.
ReleaseConcurrencyCap(c) ==
  /\ c \in cap.holders
  /\ LET key == concurrencyReleaseScript(cap.key) IN
     cap' = [cap EXCEPT !.key = key, !.holders = @ \ {c},
                        !.last = [op |-> "release", before |-> CounterOf(cap.key),
                                  after |-> CounterOf(key), ok |-> TRUE]]
  /\ UNCHANGED <<ledger, balances, actions, walletLock, balLock, proc, posts, vreq, route,
                 pickCall, conc>>

\* The TTL of the key runs out: the store deletes the key.
ExpireKey ==
  /\ cap.key.exists /\ cap.key.ttl
  /\ cap' = [cap EXCEPT !.key = AbsentKey,
                        !.last = [op |-> "expire", before |-> CounterOf(cap.key),
                                  after |-> 0, ok |-> TRUE]]
  /\ UNCHANGED <<ledger, balances, actions, walletLock, balLock, proc, posts, vreq, route,
                 pickCall, conc>>

InitCap ==
  /\ WalletInit
  /\ vreq = ZeroReq
  /\ route = IdleRoute
  /\ pickCall = IdlePick
  /\ conc = IdleConc
  /\ cap \in { [IdleCap EXCEPT !.limit = l] : l \in 1..MaxLimit }

NextCap ==
  \/ \E c \in CapCallers : AcquireConcurrencyCap(c) \/ ReleaseConcurrencyCap(c)
  \/ ExpireKey

\* Callers acquiring and releasing slots of one key while its TTL may run out.
CapSpec == InitCap /\ [][NextCap]_vars

\* ------------------------------------------------------ wallet claims
BalanceOf(ws, w) ==
  LET rows == BalanceRowsOf(balances, ws, w) IN
  IF rows = {} THEN 0 ELSE (CHOOSE b \in rows : TRUE).BalanceMinor

\* The transaction of p is between its lock of the wallet row and its end.
HoldsWallet(p) ==
  /\ proc[p].pc \in {"idem", "findact", "getbal", "forupdate", "insert", "delta", "insact", "end"}
  /\ WKey(p) \in WalletKeys
  /\ walletLock[WKey(p)] = p

\* p's transaction ends in this step.
Ends(p) == proc[p].pc = "end" /\ proc'[p].pc = "idle"

StoreUnchanged == ledger' = ledger /\ balances' = balances /\ actions' = actions

\* C1: in every reachable state each wallet has at most one balance row, and its
\* balance (0 when it has no row) equals the sum of the signed amounts of the
\* wallet's ledger entries.
C1_BalanceEqualsLedgerSum ==
  \A k \in WalletKeys :
    /\ Cardinality(BalanceRowsOf(balances, k[1], k[2])) <= 1
    /\ BalanceOf(k[1], k[2]) = SumAmounts(SelectLedger(ledger, k[1], k[2]))

\* C1 witness: credits and a debit are posted and a call has failed for funds.
C1_Witness ==
  /\ Len(ledger) >= 2
  /\ \E i \in 1..Len(ledger) : ledger[i].Type = LedgerEntryTypeDebit
  /\ \E p \in Procs : proc[p].pc = "idle" /\ proc[p].err = ErrInsufficientFunds

\* C2: for every (workspace, wallet, key) at most one ledger entry exists and
\* at most one balance delta was ever committed under it.
C2_AtMostOncePerKey ==
  \A k \in WalletKeys : \A key \in Keys :
    /\ Len(findLedgerByIdempotency(ledger, k[1], k[2], key)) <= 1
    /\ Len(posts[<<k, key>>]) <= 1

\* C2 witness: two concurrent calls carry the same key; one has inserted its
\* entry and not yet committed, the other waits for the wallet row.
C2_Witness ==
  \E p, q \in Procs :
    /\ p # q
    /\ proc[p].req.key = proc[q].req.key /\ WKey(p) = WKey(q)
    /\ proc[p].pc = "end" /\ proc[p].err = NoErr /\ proc[p].pendLedger # <<>>
    /\ proc[q].pc = "lock"

\* fn of p took the idempotent branch and returned nil.
RetryReturns(p) == proc[p].pc = "end" /\ proc[p].retry /\ proc[p].err = NoErr

FirstPost(p) == posts[<<WKey(p), proc[p].req.key>>]

\* The entry under p's key is the last one committed on p's wallet.
NothingPostedSince(p) ==
  LET mine == SelectLedger(ledger, proc[p].req.ws, proc[p].req.wallet) IN
  mine # <<>> /\ mine[Len(mine)].IdempotencyKey = proc[p].req.key

\* C3 as stated: an invocation under a key already posted returns the entry the
\* first invocation returned and the balance the first invocation returned.
C3_SameLedgerSameBalance ==
  \A p \in Procs :
    RetryReturns(p) =>
      /\ Len(FirstPost(p)) >= 1
      /\ proc[p].outLedger.ID = FirstPost(p)[1].ID
      /\ proc[p].outLedger.AmountMinor = FirstPost(p)[1].AmountMinor
      /\ proc[p].outBal.BalanceMinor = FirstPost(p)[1].BalanceMinor

\* C3 amended: such an invocation returns the entry the first invocation
\* returned (same id, same amount) and the wallet's balance as it is now, which
\* is the balance the first invocation returned when no entry was committed on
\* the wallet since.
C3_SameLedgerCurrentBalance ==
  \A p \in Procs :
    RetryReturns(p) =>
      /\ Len(FirstPost(p)) >= 1
      /\ proc[p].outLedger.ID = FirstPost(p)[1].ID
      /\ proc[p].outLedger.AmountMinor = FirstPost(p)[1].AmountMinor
      /\ proc[p].outBal.BalanceMinor = BalanceOf(proc[p].req.ws, proc[p].req.wallet)
      /\ NothingPostedSince(p) => proc[p].outBal.BalanceMinor = FirstPost(p)[1].BalanceMinor

\* C3 witness: a retry returns after another entry was committed on the wallet.
C3_Witness ==
  \E p \in Procs :
    /\ RetryReturns(p)
    /\ ~NothingPostedSince(p)
    /\ proc[p].outBal.BalanceMinor # FirstPost(p)[1].BalanceMinor

\* A debit in the wallet's currency, under a key not yet used on the wallet, of
\* more than the wallet's balance, whose transaction met no store failure.
DebitOverBalance(p) ==
  /\ proc[p].req.op = "Debit"
  /\ HoldsWallet(p) /\ proc[p].pc = "end" /\ proc[p].err # ErrStore
  /\ \E w \in WalletRowsOf(proc[p].req.ws, proc[p].req.wallet) : w.Currency = proc[p].req.currency
  /\ findLedgerByIdempotency(ledger, proc[p].req.ws, proc[p].req.wallet, proc[p].req.key) = <<>>
  /\ proc[p].req.amount > BalanceOf(proc[p].req.ws, proc[p].req.wallet)

\* C4 as stated: every such debit fails with insufficient-funds and leaves the
\* ledger and the balances as they were.
C4_InsufficientFundsAlways ==
  [][\A p \in Procs :
       (DebitOverBalance(p) /\ Ends(p)) =>
         (proc'[p].err = ErrInsufficientFunds /\ StoreUnchanged)]_vars

\* C4 amended: every such debit leaves the ledger and the balances as they
\* were; it fails with insufficient-funds when the wallet has a balance row and
\* with not-found when it has none yet.
C4_InsufficientFundsOrNotFound ==
  [][\A p \in Procs :
       (DebitOverBalance(p) /\ Ends(p)) =>
         /\ StoreUnchanged
         /\ proc'[p].err =
              IF BalanceRowsOf(balances, proc[p].req.ws, proc[p].req.wallet) = {}
                THEN ErrNotFound ELSE ErrInsufficientFunds]_vars

\* C4 witness: a debit of more than a positive balance has failed for funds.
C4_Witness ==
  \E p \in Procs :
    /\ DebitOverBalance(p)
    /\ BalanceOf(proc[p].req.ws, proc[p].req.wallet) > 0
    /\ proc[p].err = ErrInsufficientFunds

\* What the operations document as an invalid request.
InvalidArgs(r) ==
  \/ r.ws = "" \/ r.wallet = "" \/ r.currency = "" \/ r.key = "" \/ r.amount <= 0
  \/ r.op = "AdminManualCredit" /\ (r.adminUser = "" \/ r.adminRole = "" \/ r.reason = "")

\* C5: a call with an invalid request returns invalid-argument before any
\* transaction: none is begun, no lock is taken, no row is written.
C5_InvalidBeforeTransaction ==
  InvalidArgs(vreq) =>
    /\ proc["p1"].pc \in {"idle", "invalid"}
    /\ proc["p1"].pc = "invalid" => proc["p1"].err = ErrInvalidArgument
    /\ ~proc["p1"].began
    /\ \A k \in WalletKeys : walletLock[k] = "none" /\ balLock[k] = "none"
    /\ ledger = <<>> /\ balances = {} /\ actions = {}

\* C5 witness: a negative amount, every other argument present, was refused.
C5_Witness ==
  /\ proc["p1"].pc = "invalid"
  /\ vreq.amount < 0
  /\ vreq.ws # "" /\ vreq.wallet # "" /\ vreq.currency # "" /\ vreq.key # ""
  /\ vreq.op = "AdminManualCredit" /\ vreq.adminUser # "" /\ vreq.adminRole # ""
  /\ vreq.reason # ""

\* The request's currency is not the stored currency of its wallet.
CurrencyMismatch(p) ==
  \E w \in WalletRowsOf(proc[p].req.ws, proc[p].req.wallet) : w.Currency # proc[p].req.currency

\* C6: a transaction whose request differs in currency from the wallet writes
\* nothing and, unless the store itself failed, returns invalid-argument, also
\* when the key was already used on the wallet.
C6_CurrencyMismatchRejected ==
  [][\A p \in Procs :
       (CurrencyMismatch(p) /\ Ends(p)) =>
         /\ StoreUnchanged
         /\ proc[p].err # ErrStore => proc'[p].err = ErrInvalidArgument]_vars

\* C6 witness: a mismatching request under a key already used on the wallet
\* has been refused.
C6_Witness ==
  \E p \in Procs :
    /\ CurrencyMismatch(p)
    /\ proc[p].pc = "end" /\ proc[p].err = ErrInvalidArgument
    /\ findLedgerByIdempotency(ledger, proc[p].req.ws, proc[p].req.wallet, proc[p].req.key) # <<>>

\* C7: no committed ledger entry is without its balance row and delta, no
\* admin credit entry without exactly one admin action linking to it, and no
\* admin action without its entry.
C7_AllOrNothing ==
  /\ \A i \in 1..Len(ledger) :
       /\ BalanceRowsOf(balances, ledger[i].WorkspaceID, ledger[i].WalletID) # {}
       /\ ledger[i].ExternalRef = "admin_manual_credit" =>
            Cardinality({ a \in actions : a.RelatedLedgerID = ledger[i].ID }) = 1
  /\ \A k \in WalletKeys :
       BalanceOf(k[1], k[2]) = SumAmounts(SelectLedger(ledger, k[1], k[2]))
  /\ \A a \in actions :
       \E i \in 1..Len(ledger) :
         /\ ledger[i].ID = a.RelatedLedgerID
         /\ ledger[i].ExternalRef = "admin_manual_credit"

\* C7 witness: an admin credit has written its entry and its delta, a later
\* step failed, and entries committed earlier are in the store.
C7_Witness ==
  \E p \in Procs :
    /\ proc[p].pc = "end" /\ proc[p].err = ErrStore
    /\ proc[p].req.op = "AdminManualCredit"
    /\ proc[p].pendLedger # <<>> /\ proc[p].pendBal # <<>>
    /\ ledger # <<>>

\* C8: no balance is negative, and no two transactions are past the lock of the
\* same wallet at once.
C8_DebitCheckUnderLock ==
  /\ \A b \in balances : b.BalanceMinor >= 0
  /\ \A p, q \in Procs : (p # q /\ HoldsWallet(p) /\ HoldsWallet(q)) => WKey(p) # WKey(q)
  /\ \A p, q \in Procs :
       (p # q /\ WKey(p) = WKey(q)) =>
         ~(/\ proc[p].pc \in {"idem", "findact", "getbal", "forupdate", "insert", "delta", "insact"}
           /\ proc[q].pc \in {"idem", "findact", "getbal", "forupdate", "insert", "delta", "insact"})

\* C8 witness: a debit has passed the funds check while another debit on the
\* same wallet waits for the wallet row.
C8_Witness ==
  \E p, q \in Procs :
    /\ p # q /\ WKey(p) = WKey(q)
    /\ proc[p].req.op = "Debit" /\ proc[q].req.op = "Debit"
    /\ proc[p].pc = "insert" /\ proc[q].pc = "lock"
    /\ proc[p].req.amount + proc[q].req.amount > BalanceOf(proc[p].req.ws, proc[p].req.wallet)

\* ----------------------------------------------------- routing claims
\* The call of Route has returned.
Routed == route.pc = "done"

\* The override store was asked and answered with an override.
StoreReturnedOverride ==
  /\ "GetActiveOverride" \in SeqToSet(route.out.calls)
  /\ route.e.Overrides.e.Store.err = NoErr
  /\ route.e.Overrides.e.Store.ok

StoredOverride == route.e.Overrides.e.Store.o

\* C9: whenever the override store returned an override with a non-empty target
\* and an expiry strictly after the clock's reading, Route returned connect to
\* that target with an empty reason and no error, whatever the role, the wallet,
\* the cost, the campaign and the collaborators, and the call emitted exactly
\* one audit event.
C9_ActiveOverrideConnectsAndAudits ==
  (/\ Routed /\ StoreReturnedOverride
   /\ StoredOverride.ConnectTo # ""
   /\ StoredOverride.ExpiresAt > route.e.Overrides.e.now)
  =>
  /\ route.out.err = NoErr
  /\ route.out.d = Decision(route.in.WorkspaceID, route.in.CampaignID, ActionConnect,
                            StoredOverride.ConnectTo, "")
  /\ Len(route.out.audit) = 1

\* The engine of the call, its override store reporting no override.
EngineWithoutOverride ==
  [route.e EXCEPT !.Overrides.e.Store.ok = FALSE, !.Overrides.e.Store.o = ZeroOverride]

\* C10: when the override store returned an override whose expiry is at or
\* before the clock's reading, Decide answered not applied with no error and no
\* audit event, and Route returned the Decision or error, emitted the events and
\* called the collaborators as it does on the same input when the store reports
\* no override.
C10_ExpiredOverrideIsAbsent ==
  (/\ Routed /\ StoreReturnedOverride
   /\ StoredOverride.ExpiresAt <= route.e.Overrides.e.now)
  =>
  /\ Decide(route.e.Overrides.e, route.in.WorkspaceID, route.in.CampaignID)
       = DecideResult(ZeroDecision, FALSE, NoErr, <<>>, <<"GetActiveOverride">>)
  /\ route.out.audit = <<>>
  /\ route.out = Route(EngineWithoutOverride, route.in)

\* C10 witness: an override with a target, expiring at the very instant the
\* clock reads, on an engine with an audit sink, and the call went on to connect
\* through the campaign.
C10_Witness ==
  /\ Routed /\ StoreReturnedOverride
  /\ StoredOverride.ExpiresAt = route.e.Overrides.e.now
  /\ StoredOverride.ConnectTo # ""
  /\ route.e.Overrides.e.Audit.set
  /\ route.out.d.Action = ActionConnect /\ route.out.d.Reason = "selected"

\* The engine has an override store, and for this call the store answers with
\* an override that has a target and expires after the clock's reading.
ApplicableOverride ==
  /\ route.in.WorkspaceID # ""
  /\ route.e.Overrides.set /\ route.e.Overrides.e.Store.set
  /\ route.e.Overrides.e.Store.err = NoErr /\ route.e.Overrides.e.Store.ok
  /\ StoredOverride.ConnectTo # ""
  /\ StoredOverride.ExpiresAt > route.e.Overrides.e.now

\* The override stage falls through: no override engine, no store, or the store
\* answers, without an error, with no override or with an expired one.
NoOverrideApplies ==
  /\ route.in.WorkspaceID # ""
  /\ \/ ~route.e.Overrides.set
     \/ ~route.e.Overrides.e.Store.set
     \/ /\ route.e.Overrides.e.Store.err = NoErr
        /\ \/ ~route.e.Overrides.e.Store.ok
           \/ StoredOverride.ExpiresAt <= route.e.Overrides.e.now

Privileged == route.in.ActorRole \in {RoleSuperAdmin, RoleNetworkOperator}

\* What Route returns for the same input when the store reports no override.
NormalRoute == Route(EngineWithoutOverride, route.in)

\* C11: when an override was applied, the Decision Route returned equals, field
\* by field, the Decision normal routing returns for the same workspace and
\* campaign when it connects to the same target.
C11_OverrideConnectEqualsNormalConnect ==
  (/\ Routed /\ ApplicableOverride
   /\ NormalRoute.err = NoErr
   /\ NormalRoute.d.Action = ActionConnect
   /\ NormalRoute.d.ConnectTo = route.out.d.ConnectTo)
  => route.out.d = NormalRoute.d

\* The engine of the call with another audit sink.
WithAudit(set, err) == [route.e EXCEPT !.Overrides.e.Audit = [set |-> set, err |-> err]]

\* C12: for every call with an applicable override, Decide and Route return the
\* same Decision, applied and no error, whether the audit sink succeeds, fails
\* or is not configured.
C12_AuditNeverAffectsRouting ==
  (Routed /\ ApplicableOverride) =>
    /\ route.out.err = NoErr
    /\ \A e2 \in {WithAudit(TRUE, NoErr), WithAudit(TRUE, ErrAuditSink), WithAudit(FALSE, NoErr)} :
         LET dec == Decide(e2.Overrides.e, route.in.WorkspaceID, route.in.CampaignID) IN
         /\ dec.applied /\ dec.err = NoErr /\ dec.d = route.out.d
         /\ Route(e2, route.in).d = route.out.d
         /\ Route(e2, route.in).err = NoErr

\* C12 witness: the override was applied on an engine whose audit sink fails.
C12_Witness ==
  /\ Routed /\ ApplicableOverride
  /\ route.e.Overrides.e.Audit.set /\ route.e.Overrides.e.Audit.err = ErrAuditSink
  /\ route.out.err = NoErr /\ route.out.d.Action = ActionConnect
  /\ Len(route.out.audit) = 1

\* The targets of the positive-weight destinations the campaign evaluation gives.
EligibleTargets ==
  { route.e.Campaigns.ev.Destinations[i].TargetURI :
      i \in { j \in 1..Len(route.e.Campaigns.ev.Destinations) :
                route.e.Campaigns.ev.Destinations[j].Weight > 0 } }

\* The campaign evaluator is configured and answers without an error.
EvaluationSucceeds == route.e.Campaigns.set /\ route.e.Campaigns.err = NoErr

\* C13: when no override applies and the role is super_admin or
\* network_operator, Route returns no error; with a campaign id, a successful
\* evaluation and a positive-weight destination it connects to one of those
\* destinations with reason "admin_override", whatever the evaluation allows
\* and whatever the balance; in every other case it rejects with reason
\* "admin_override_no_destination".
C13_PrivilegedNeverBlocked ==
  (Routed /\ NoOverrideApplies /\ Privileged) =>
    /\ route.out.err = NoErr
    /\ IF route.in.CampaignID # "" /\ EvaluationSucceeds /\ EligibleTargets # {}
         THEN /\ route.out.d.Action = ActionConnect
              /\ route.out.d.ConnectTo \in EligibleTargets
              /\ route.out.d.Reason = "admin_override"
              /\ route.out.d.WorkspaceID = route.in.WorkspaceID
              /\ route.out.d.CampaignID = route.in.CampaignID
         ELSE route.out.d = Decision(route.in.WorkspaceID, route.in.CampaignID, ActionReject, "",
                                     "admin_override_no_destination")

\* C13 witness: a super_admin call whose campaign is not allowed and whose cost
\* exceeds the balance was connected.
C13_Witness ==
  /\ Routed /\ NoOverrideApplies
  /\ route.in.ActorRole = RoleSuperAdmin
  /\ ~route.e.Campaigns.ev.Allowed
  /\ route.e.Wallet.set /\ route.e.Wallet.err = NoErr
  /\ route.in.EstimatedMinor > route.e.Wallet.bal.BalanceMinor
  /\ route.out.d.Action = ActionConnect /\ route.out.d.Reason = "admin_override"

\* A call past the override stage by a role that is not privileged.
NonPrivilegedNormal == Routed /\ NoOverrideApplies /\ ~Privileged

\* The wallet service is configured and answers without an error.
BalanceKnown == route.e.Wallet.set /\ route.e.Wallet.err = NoErr

Called(c) == c \in SeqToSet(route.out.calls)

\* What Route returns for the same input with no estimated cost.
RouteAtNoCost == Route(route.e, [route.in EXCEPT !.EstimatedMinor = 0])

\* C14: for a non-privileged call with no applicable override the wallet
\* service is consulted only when the estimated cost is positive; with a
\* positive cost, wallet id and currency supplied and the balance read, Route
\* rejects with "wallet_currency_mismatch" when the currencies differ, else with
\* "insufficient_balance" when the balance is below the cost, and else returns
\* what the campaign stages return.
C14_BalanceGate ==
  NonPrivilegedNormal =>
    /\ Called("GetBalance") => route.in.EstimatedMinor > 0
    /\ (/\ route.in.EstimatedMinor > 0 /\ route.in.WalletID # "" /\ route.in.Currency # ""
        /\ BalanceKnown) =>
         /\ Called("GetBalance")
         /\ IF route.e.Wallet.bal.Currency # route.in.Currency
              THEN /\ route.out.err = NoErr
                   /\ route.out.d = Decision(route.in.WorkspaceID, route.in.CampaignID,
                                             ActionReject, "", "wallet_currency_mismatch")
            ELSE IF route.e.Wallet.bal.BalanceMinor < route.in.EstimatedMinor
              THEN /\ route.out.err = NoErr
                   /\ route.out.d = Decision(route.in.WorkspaceID, route.in.CampaignID,
                                             ActionReject, "", "insufficient_balance")
            ELSE route.out.d = RouteAtNoCost.d /\ route.out.err = RouteAtNoCost.err

\* C14 witness: a cost equal to the balance passed the gate and the call was
\* connected by the campaign stages.
C14_Witness ==
  /\ NonPrivilegedNormal
  /\ route.in.EstimatedMinor > 0
  /\ route.e.Wallet.bal.BalanceMinor = route.in.EstimatedMinor
  /\ Called("GetBalance")
  /\ route.out.d.Action = ActionConnect /\ route.out.d.Reason = "selected"

\* The call passes the balance gate or skips it.
PassesGate ==
  \/ route.in.EstimatedMinor <= 0
  \/ /\ route.in.WalletID # "" /\ route.in.Currency # "" /\ BalanceKnown
     /\ route.e.Wallet.bal.Currency = route.in.Currency
     /\ route.e.Wallet.bal.BalanceMinor >= route.in.EstimatedMinor

\* C15: a non-privileged call with no applicable override that passes or skips
\* the balance gate is rejected with "campaign_id_required" and no error when
\* its campaign id is empty, evaluator or not, and returns an error and no
\* Decision when it has a campaign id and no evaluator is configured.
C15_CampaignRequirement ==
  (NonPrivilegedNormal /\ PassesGate) =>
    /\ route.in.CampaignID = "" =>
         /\ route.out.err = NoErr
         /\ route.out.d = Decision(route.in.WorkspaceID, "", ActionReject, "",
                                   "campaign_id_required")
    /\ (route.in.CampaignID # "" /\ ~route.e.Campaigns.set) =>
         /\ route.out.err = ErrCampaignsNotConfigured
         /\ route.out.d = ZeroDecision

\* C15 witness: no campaign id and no evaluator, past a gate that ran.
C15_Witness ==
  /\ NonPrivilegedNormal /\ PassesGate
  /\ route.in.EstimatedMinor > 0
  /\ route.in.CampaignID = "" /\ ~route.e.Campaigns.set
  /\ route.out.d.Reason = "campaign_id_required"

\* The collaborators of Route in the order of its stages.
StageOrder == <<"GetActiveOverride", "LogOverrideApplied", "GetBalance", "EvaluateInbound">>

\* The override stage ends the call with an error.
OverrideStageFails ==
  /\ route.in.WorkspaceID # ""
  /\ route.e.Overrides.set /\ route.e.Overrides.e.Store.set
  /\ \/ route.e.Overrides.e.Store.err # NoErr
     \/ /\ route.e.Overrides.e.Store.ok
        /\ StoredOverride.ExpiresAt > route.e.Overrides.e.now
        /\ StoredOverride.ConnectTo = ""

\* C16: the result of Route is that of the first stage that terminates, in the
\* order override, privileged role, balance gate, campaign id, campaign
\* evaluation, weighted selection; the collaborators are called in that order,
\* each at most once, and none of a stage after the one that terminated.
C16_FirstTerminatingStage ==
  Routed =>
    /\ route.out.calls = SelectSeq(StageOrder, Called)
    /\ ApplicableOverride =>
         /\ route.out.d.Action = ActionConnect /\ route.out.d.Reason = ""
         /\ ~Called("GetBalance") /\ ~Called("EvaluateInbound")
    /\ OverrideStageFails =>
         /\ route.out.err \in {ErrOverrideStore, ErrConnectToEmpty}
         /\ ~Called("GetBalance") /\ ~Called("EvaluateInbound")
    /\ (NoOverrideApplies /\ Privileged) =>
         /\ route.out.d.Reason \in {"admin_override", "admin_override_no_destination"}
         /\ ~Called("GetBalance")
    /\ (NonPrivilegedNormal /\ ~PassesGate) =>
         /\ \/ route.out.err # NoErr
            \/ route.out.d.Reason \in {"wallet_currency_mismatch", "insufficient_balance"}
         /\ ~Called("EvaluateInbound")
    /\ (NonPrivilegedNormal /\ PassesGate /\ route.in.CampaignID = "") =>
         /\ route.out.d.Reason = "campaign_id_required"
         /\ ~Called("EvaluateInbound")
    /\ (NonPrivilegedNormal /\ PassesGate /\ route.in.CampaignID # "" /\ EvaluationSucceeds) =>
         /\ Called("EvaluateInbound")
         /\ IF route.e.Campaigns.ev.Allowed
              THEN route.out.d.Reason \in {"selected", "no_eligible_destination"}
              ELSE /\ route.out.d.Action = ActionReject
                   /\ route.out.d.Reason \notin {"selected", "no_eligible_destination"}
    /\ (/\ NonPrivilegedNormal /\ route.in.EstimatedMinor > 0 /\ route.in.CampaignID = ""
        /\ route.in.WalletID # "" /\ route.in.Currency # "" /\ BalanceKnown
        /\ route.e.Wallet.bal.Currency = route.in.Currency
        /\ route.e.Wallet.bal.BalanceMinor < route.in.EstimatedMinor) =>
         route.out.d.Reason = "insufficient_balance"

\* C16 witness: a non-privileged call with a cost above the balance and no
\* campaign id was rejected at the balance gate.
C16_Witness ==
  /\ NonPrivilegedNormal
  /\ route.in.CampaignID = ""
  /\ BalanceKnown /\ route.e.Wallet.bal.Currency = route.in.Currency
  /\ route.e.Wallet.bal.BalanceMinor < route.in.EstimatedMinor
  /\ route.out.d.Reason = "insufficient_balance"
  /\ route.out.calls = <<"GetActiveOverride", "GetBalance">>

\* ---------------------------------------------- pickDestination claims
Picked == pickCall.pc = "done"

PositiveWeight(d) == IF d.Weight > 0 THEN d.Weight ELSE 0

\* The sum of the positive weights of the first i destinations.
RECURSIVE CumulativeWeight(_, _)
CumulativeWeight(dests, i) ==
  IF i = 0 THEN 0 ELSE CumulativeWeight(dests, i - 1) + PositiveWeight(dests[i])

PickTotal == CumulativeWeight(pickCall.dests, Len(pickCall.dests))

\* The positions of the list that hold a positive weight.
PositivePositions == { i \in 1..Len(pickCall.dests) : pickCall.dests[i].Weight > 0 }

\* C17: for a list of total positive weight W > 0 and the draw r of [0, W),
\* pickDestination returns the first destination of positive weight whose
\* cumulative weight exceeds r, and the number of draws of [0, W) that select
\* a destination equals its weight (none for a weight of zero or less).
C17_FirstCumulativeExceeding ==
  (Picked /\ PickTotal > 0) =>
    LET r == pickCall.seed % PickTotal IN
    /\ pickCall.out.ok
    /\ \E i \in PositivePositions :
         /\ CumulativeWeight(pickCall.dests, i) > r
         /\ CumulativeWeight(pickCall.dests, i - 1) <= r
         /\ pickCall.out.dest = pickCall.dests[i].TargetURI
    /\ \A i \in 1..Len(pickCall.dests) :
         Cardinality({ d \in 0..(PickTotal - 1) :
                         pickDestination(pickCall.dests, d)
                           = [dest |-> pickCall.dests[i].TargetURI, ok |-> TRUE] })
           = PositiveWeight(pickCall.dests[i])

\* C17 witness: the draw passed the first destination, skipped a second one of
\* no positive weight and selected the third.
C17_Witness ==
  /\ Picked /\ Len(pickCall.dests) = 3
  /\ pickCall.dests[1].Weight > 0 /\ pickCall.dests[2].Weight <= 0
  /\ pickCall.dests[3].Weight > 1
  /\ pickCall.out = [dest |-> pickCall.dests[3].TargetURI, ok |-> TRUE]

\* C18: pickDestination reports not-eligible exactly when no destination has a
\* positive weight; what it returns is a destination of positive weight; and
\* when exactly one destination has a positive weight it returns that one.
C18_EligibleIffPositiveWeight ==
  Picked =>
    /\ ~pickCall.out.ok <=> PositivePositions = {}
    /\ ~pickCall.out.ok => pickCall.out.dest = ""
    /\ pickCall.out.ok =>
         /\ \E i \in PositivePositions : pickCall.out.dest = pickCall.dests[i].TargetURI
         /\ \A i \in 1..Len(pickCall.dests) :
              pickCall.dests[i].Weight <= 0 => pickCall.out.dest # pickCall.dests[i].TargetURI
    /\ \A i \in PositivePositions :
         PositivePositions = {i} =>
           pickCall.out = [dest |-> pickCall.dests[i].TargetURI, ok |-> TRUE]

\* C18 witness: one destination of positive weight between a negative and a
\* zero one, selected on a draw other than the first.
C18_Witness ==
  /\ Picked /\ Len(pickCall.dests) = 3
  /\ pickCall.dests[1].Weight < 0 /\ pickCall.dests[2].Weight > 1
  /\ pickCall.dests[3].Weight = 0
  /\ pickCall.seed % PickTotal > 0
  /\ pickCall.out = [dest |-> pickCall.dests[2].TargetURI, ok |-> TRUE]

\* ------------------------------------------- routing claims, continued
\* C19: Route returns an error, and then no Decision, only for an empty
\* workspace id, a missing collaborator or input of the balance gate, a missing
\* campaign evaluator, or an error a collaborator returned; every policy outcome
\* is a Decision reject with a non-empty reason and no error, a campaign denial
\* carrying the evaluator's reason or "campaign_blocked" when it gives none.
C19_PolicyOutcomesAreDecisions ==
  Routed =>
    /\ route.out.err # NoErr =>
         /\ route.out.d = ZeroDecision
         /\ \/ route.out.err = ErrWorkspaceRequired /\ route.in.WorkspaceID = ""
            \/ /\ route.in.EstimatedMinor > 0
               /\ \/ route.out.err = ErrWalletNotConfigured /\ ~route.e.Wallet.set
                  \/ route.out.err = ErrWalletIDRequired /\ route.in.WalletID = ""
                  \/ route.out.err = ErrCurrencyRequired /\ route.in.Currency = ""
            \/ route.out.err = ErrCampaignsNotConfigured /\ ~route.e.Campaigns.set
            \/ /\ Called("GetActiveOverride")
               /\ route.out.err = Decide(route.e.Overrides.e, route.in.WorkspaceID,
                                         route.in.CampaignID).err
            \/ Called("GetBalance") /\ route.out.err = route.e.Wallet.err
            \/ Called("EvaluateInbound") /\ route.out.err = route.e.Campaigns.err
    /\ route.out.err = NoErr =>
         /\ route.out.d.Action \in {ActionConnect, ActionReject}
         /\ route.out.d.Action = ActionReject => route.out.d.Reason # ""
    /\ (/\ NonPrivilegedNormal /\ route.in.EstimatedMinor > 0
        /\ route.in.WalletID # "" /\ route.in.Currency # "" /\ BalanceKnown
        /\ \/ route.e.Wallet.bal.Currency # route.in.Currency
           \/ route.e.Wallet.bal.BalanceMinor < route.in.EstimatedMinor) =>
         /\ route.out.err = NoErr /\ route.out.d.Action = ActionReject
         /\ route.out.d.Reason \in {"wallet_currency_mismatch", "insufficient_balance"}
    /\ (NonPrivilegedNormal /\ PassesGate /\ route.in.CampaignID = "") =>
         /\ route.out.err = NoErr /\ route.out.d.Action = ActionReject
         /\ route.out.d.Reason = "campaign_id_required"
    /\ (NonPrivilegedNormal /\ PassesGate /\ route.in.CampaignID # "" /\ EvaluationSucceeds) =>
         /\ route.out.err = NoErr
         /\ ~route.e.Campaigns.ev.Allowed =>
              /\ route.out.d.Action = ActionReject
              /\ route.out.d.Reason = IF route.e.Campaigns.ev.Reason = ""
                                        THEN "campaign_blocked"
                                        ELSE route.e.Campaigns.ev.Reason
         /\ (route.e.Campaigns.ev.Allowed /\ EligibleTargets = {}) =>
              /\ route.out.d.Action = ActionReject
              /\ route.out.d.Reason = "no_eligible_destination"

\* C19 witness: a campaign denial that gives no reason was returned as a
\* rejection with "campaign_blocked".
C19_Witness ==
  /\ NonPrivilegedNormal /\ PassesGate /\ EvaluationSucceeds
  /\ ~route.e.Campaigns.ev.Allowed /\ route.e.Campaigns.ev.Reason = ""
  /\ route.out.err = NoErr
  /\ route.out.d.Action = ActionReject /\ route.out.d.Reason = "campaign_blocked"

\* C20: every Decision Route returned without an error has a non-empty connect
\* target exactly when its action is connect.
C20_ConnectTargetIffConnect ==
  (Routed /\ route.out.err = NoErr) =>
    (route.out.d.ConnectTo # "" <=> route.out.d.Action = ActionConnect)

\* ------------------------------------------ concurrent routing claims
\* What a call of Route on the input returns when it runs alone, for every
\* state its random source may be in.
AloneResults(in) ==
  { [d |-> Route(ConcEngine(r), in).d, err |-> Route(ConcEngine(r), in).err] : r \in RNGStates }

\* C21: under every interleaving of the calls of Route on one engine, each call
\* returns, and returns a Decision it returns when run alone on its input, and
\* no step of a call reads or writes a field of the engine (the random source,
\* the clock function) that another call is in the middle of updating.
C21_ConcurrentRoutesNeverInterfere ==
  \A c \in Callers :
    /\ conc.call[c].pc # "panic"
    /\ conc.call[c].pc = "done" =>
         [d |-> conc.call[c].d, err |-> conc.call[c].err] \in AloneResults(conc.call[c].in)
    /\ ~conc.call[c].raced

\* ------------------------------------------- routing claims, continued
\* The override the store returned is of another workspace or campaign than
\* the request.
OverrideMismatch ==
  \/ StoredOverride.WorkspaceID # route.in.WorkspaceID
  \/ StoredOverride.CampaignID # route.in.CampaignID

\* C22: when the override store returned an override whose workspace id or
\* campaign id is not that of the request, Decide fails with an error and is
\* not applied, and Route returns no connect Decision to the override's target.
C22_MismatchedOverrideRejected ==
  (Routed /\ StoreReturnedOverride /\ OverrideMismatch) =>
    /\ Decide(route.e.Overrides.e, route.in.WorkspaceID, route.in.CampaignID).err # NoErr
    /\ ~Decide(route.e.Overrides.e, route.in.WorkspaceID, route.in.CampaignID).applied
    /\ ~(/\ route.out.err = NoErr /\ route.out.d.Action = ActionConnect
         /\ route.out.d.Reason = "" /\ route.out.d.ConnectTo = StoredOverride.ConnectTo)

\* C23: when the override store returned an override with an empty connect
\* target, then if its expiry is after the clock's reading Decide returns an
\* error, not applied, Route returns that error and no Decision without going
\* on to normal routing, and no audit event is emitted; and if it is expired
\* Decide answers absent with no error and Route returns what it returns when
\* the store reports no override.
C23_EmptyTargetIsErrorUnlessExpired ==
  (Routed /\ StoreReturnedOverride /\ StoredOverride.ConnectTo = "") =>
    IF StoredOverride.ExpiresAt > route.e.Overrides.e.now
      THEN /\ Decide(route.e.Overrides.e, route.in.WorkspaceID, route.in.CampaignID)
                = DecideResult(ZeroDecision, FALSE, ErrConnectToEmpty, <<>>, <<"GetActiveOverride">>)
           /\ route.out = RouteResult(ZeroDecision, ErrConnectToEmpty, <<>>, <<"GetActiveOverride">>)
      ELSE /\ Decide(route.e.Overrides.e, route.in.WorkspaceID, route.in.CampaignID)
                = DecideResult(ZeroDecision, FALSE, NoErr, <<>>, <<"GetActiveOverride">>)
           /\ route.out = NormalRoute

\* C23 witness: an unexpired override without a target, on an engine with an
\* audit sink, stopped with the error a call that normal routing connects.
C23_Witness ==
  /\ Routed /\ StoreReturnedOverride /\ StoredOverride.ConnectTo = ""
  /\ StoredOverride.ExpiresAt > route.e.Overrides.e.now
  /\ route.e.Overrides.e.Audit.set
  /\ NormalRoute.err = NoErr /\ NormalRoute.d.Action = ActionConnect
  /\ route.out.err = ErrConnectToEmpty

\* ----------------------------------------------- wallet claims, continued
\* The ledger entries AdminManualCredit created.
AdminEntries ==
  { i \in 1..Len(ledger) : ledger[i].ExternalRef = "admin_manual_credit" }

\* The ledger entries an admin action links to, of its workspace and wallet,
\* with its amount and currency.
EntriesOf(a) ==
  { i \in 1..Len(ledger) :
      /\ ledger[i].ID = a.RelatedLedgerID
      /\ ledger[i].WorkspaceID = a.WorkspaceID /\ ledger[i].WalletID = a.WalletID
      /\ ledger[i].AmountMinor = a.AmountMinor /\ ledger[i].Currency = a.Currency }

\* The admin-action rows and the admin credit entries pair off one to one.
AdminActionsMatchEntries ==
  /\ \A a \in actions :
       /\ Cardinality(EntriesOf(a)) = 1
       /\ Cardinality({ i \in 1..Len(ledger) : ledger[i].ID = a.RelatedLedgerID }) = 1
       /\ EntriesOf(a) \subseteq AdminEntries
  /\ \A i \in AdminEntries :
       Cardinality({ a \in actions : a.RelatedLedgerID = ledger[i].ID }) = 1
  /\ Cardinality(actions) = Cardinality(AdminEntries)

\* C24: in every reachable state the admin-action rows and the ledger entries
\* AdminManualCredit created correspond one to one, each action linking to
\* exactly one existing entry of its workspace and wallet with its amount and
\* currency and each such entry having exactly one action; and an idempotent
\* retry of AdminManualCredit adds neither an entry nor an action.
C24_AdminActionPerAdminEntry ==
  /\ []AdminActionsMatchEntries
  /\ [][\A p \in Procs :
          (Ends(p) /\ proc[p].retry /\ proc[p].req.op = "AdminManualCredit") =>
            (ledger' = ledger /\ actions' = actions)]_vars

\* C24 witness: a retry of an admin credit has found the entry and its action
\* and is about to commit, one admin action and other entries in the store.
C24_Witness ==
  \E p \in Procs :
    /\ RetryReturns(p) /\ proc[p].req.op = "AdminManualCredit"
    /\ proc[p].outAction \in actions
    /\ proc[p].outLedger.ExternalRef = "admin_manual_credit"
    /\ Len(ledger) >= 2

\* C25: across every step the ledger keeps each entry it has, in its place and
\* with all its fields; a step adds entries only as the commit of a
\* transaction, and the end of a failed operation or of an idempotent retry
\* adds none.
C25_LedgerAppendOnly ==
  [][/\ Len(ledger') >= Len(ledger)
     /\ SubSeq(ledger', 1, Len(ledger)) = ledger
     /\ ledger' # ledger => \E p \in Procs : Ends(p) /\ proc'[p].err = NoErr
     /\ \A p \in Procs :
          (Ends(p) /\ (proc[p].retry \/ proc'[p].err # NoErr)) => ledger' = ledger]_vars

\* C25 witness: with an entry in the ledger, an operation that had inserted its
\* own entry failed at a later statement and is about to roll back.
C25_Witness ==
  /\ Len(ledger) >= 1
  /\ \E p \in Procs :
       /\ proc[p].pc = "end" /\ proc[p].err # NoErr
       /\ proc[p].pendLedger # <<>>

\* p is between BeginTx and the end of WithTx.
InTransaction(p) == proc[p].began

\* p has no transaction open: it holds no row lock and no uncommitted write.
Quiescent(p) ==
  /\ ~proc[p].began
  /\ \A k \in WalletKeys : walletLock[k] # p /\ balLock[k] # p
  /\ proc[p].pendLedger = <<>> /\ proc[p].pendBal = <<>> /\ proc[p].pendAction = <<>>

\* No entry without its delta, no delta without its entry, no admin action
\* without its entry.
NothingPartlyApplied ==
  /\ \A k \in WalletKeys : BalanceOf(k[1], k[2]) = SumAmounts(SelectLedger(ledger, k[1], k[2]))
  /\ AdminActionsMatchEntries

OnDifferentWallets(p, q) ==
  <<proc[p].req.ws, proc[p].req.wallet>> # <<proc[q].req.ws, proc[q].req.wallet>>

\* No statement q's transaction is at waits for a row lock.
Unblocked(q) ==
  /\ proc[q].pc = "lock" => WalletRowLockable(walletLock[WKey(q)], q)
  /\ proc[q].pc \in {"forupdate", "delta"} => BalanceRowLockable(balLock[WKey(q)], q)

\* C27: while a transaction holds the lock of one wallet, a Credit, Debit or
\* AdminManualCredit on another wallet waits at none of its statements: the
\* wallet row and the balance row it needs are free or its own, at every step
\* up to its commit.
C27_DifferentWalletsNeverBlock ==
  \A p, q \in Procs :
    (/\ p # q /\ HoldsWallet(p)
     /\ proc[q].pc \notin {"idle", "invalid"} /\ OnDifferentWallets(p, q))
    => Unblocked(q)

\* C27 witness: a debit on one wallet has passed the funds check under its
\* locks and inserted its entry while a transaction on the other wallet holds
\* that wallet's lock.
C27_Witness ==
  \E p, q \in Procs :
    /\ p # q /\ HoldsWallet(p) /\ OnDifferentWallets(p, q)
    /\ proc[p].pc = "idem"
    /\ proc[q].req.op = "Debit" /\ proc[q].pc = "delta"
    /\ HoldsWallet(q)

\* ------------------------------------------------ concurrency cap claims
\* C28: under every interleaving of acquires, of releases by callers that
\* hold a slot and of expiries of the key's TTL, the callers that have
\* acquired a slot and not released it number at most the limit, and a
\* rejected acquire leaves the counter at the value it had before the call.
C28_HoldersNeverExceedLimit ==
  /\ Cardinality(cap.holders) <= cap.limit
  /\ (cap.last.op = "acquire" /\ ~cap.last.ok) => cap.last.after = cap.last.before

\* ----------------------------------------------- wallet claims, continued
\* The entries committed on p's wallet under p's key.
EntriesUnderKey(p) ==
  SelectSeq(ledger, LAMBDA e : /\ e.WorkspaceID = proc[p].req.ws
                               /\ e.WalletID = proc[p].req.wallet
                               /\ e.IdempotencyKey = proc[p].req.key)

\* fn of p has returned under the wallet's lock, the request in the wallet's
\* currency, its key already used on the wallet, no statement failed by the
\* store.
ReturnsUnderUsedKey(p) ==
  /\ HoldsWallet(p) /\ proc[p].pc = "end" /\ proc[p].err # ErrStore
  /\ ~CurrencyMismatch(p)
  /\ EntriesUnderKey(p) # <<>>

\* C29: a Credit, Debit or AdminManualCredit in the wallet's currency whose key
\* is already used on the wallet, by whichever operation and with whatever
\* amount, returns the existing entry and the current balance with no error,
\* without the funds check having run, and its transaction writes nothing.
C29_UsedKeyReturnsExistingEntry ==
  [][\A p \in Procs :
       (ReturnsUnderUsedKey(p) /\ Ends(p)) =>
         /\ proc[p].err = NoErr /\ proc[p].retry
         /\ proc[p].outLedger = EntriesUnderKey(p)[1]
         /\ proc[p].outBal.BalanceMinor = BalanceOf(proc[p].req.ws, proc[p].req.wallet)
         /\ proc[p].pendLedger = <<>> /\ proc[p].pendBal = <<>> /\ proc[p].pendAction = <<>>
         /\ StoreUnchanged
         /\ proc'[p].err \in {NoErr, ErrStore}]_vars

\* C29 witness: a debit of more than the balance, under the key of a credit of
\* another amount, returns the credit's entry with no error.
C29_Witness ==
  \E p \in Procs :
    /\ ReturnsUnderUsedKey(p) /\ proc[p].err = NoErr
    /\ proc[p].req.op = "Debit"
    /\ proc[p].outLedger.Type = LedgerEntryTypeCredit
    /\ proc[p].outLedger.AmountMinor # proc[p].req.amount
    /\ proc[p].req.amount > BalanceOf(proc[p].req.ws, proc[p].req.wallet)

\* ------------------------------------------- routing claims, continued
\* A condition that is an error on the normal path: no wallet service, no
\* campaign service, no wallet id or currency with a positive estimated cost,
\* or an error of the campaign evaluator.
NormalPathError ==
  \/ ~route.e.Wallet.set
  \/ ~route.e.Campaigns.set
  \/ route.in.EstimatedMinor > 0 /\ (route.in.WalletID = "" \/ route.in.Currency = "")
  \/ route.e.Campaigns.set /\ route.e.Campaigns.err # NoErr

NoDestinationReject ==
  Decision(route.in.WorkspaceID, route.in.CampaignID, ActionReject, "",
           "admin_override_no_destination")

\* What Route returns for the same call with no wallet service, no wallet id,
\* no currency and no estimated cost.
RouteWithoutWallet ==
  Route([route.e EXCEPT !.Wallet = [set |-> FALSE, err |-> NoErr, bal |-> ZeroBalance]],
        [route.in EXCEPT !.WalletID = "", !.EstimatedMinor = 0, !.Currency = ""])

\* C30 as stated: on the privileged-role path Route never consults the wallet
\* service and never returns an error, and each of those conditions ends in
\* the rejection "admin_override_no_destination".
C30_PrivilegedFailuresAllReject ==
  (Routed /\ NoOverrideApplies /\ Privileged) =>
    /\ ~Called("GetBalance")
    /\ route.out.err = NoErr
    /\ NormalPathError => route.out.d = NoDestinationReject

\* C30 amended: on the privileged-role path Route never consults the wallet
\* service and never returns an error; the wallet service, the wallet id, the
\* currency and the estimated cost, present or missing, have no effect on the
\* Decision; a missing campaign service and an error of the campaign evaluator
\* end in the rejection "admin_override_no_destination".
C30_PrivilegedIgnoresWalletAndErrors ==
  (Routed /\ NoOverrideApplies /\ Privileged) =>
    /\ ~Called("GetBalance")
    /\ route.out.err = NoErr
    /\ route.out.d = RouteWithoutWallet.d
    /\ (~route.e.Campaigns.set \/ route.e.Campaigns.err # NoErr) =>
         route.out.d = NoDestinationReject

\* C30 witness: a network_operator call with a positive cost, no wallet
\* service, no wallet id and a campaign evaluator that answered with an error
\* was rejected without an error.
C30_Witness ==
  /\ Routed /\ NoOverrideApplies
  /\ route.in.ActorRole = RoleNetworkOperator
  /\ route.in.EstimatedMinor > 0 /\ route.in.WalletID = "" /\ ~route.e.Wallet.set
  /\ route.e.Campaigns.set /\ route.e.Campaigns.err # NoErr
  /\ Called("EvaluateInbound")
  /\ route.out.err = NoErr /\ route.out.d = NoDestinationReject

====
